---- MODULE Spec2Model ----
(***************************************************************************)
(* Model of the LinkedIn company scraper: the numeric normalizer and the   *)
(* reference normalizer of src/src/scrape.js, the semi-structured          *)
(* (Voyager) strategy of src/src/voyager.js, the structured-query strategy *)
(* (GraphQLScraper) and the GET /scrape handler of src/src/server.js.      *)
(*                                                                         *)
(* JavaScript strings are sequences of one-character strings, so that the  *)
(* regular expressions, String.includes and the URL parser are computed    *)
(* and not assumed.  null is the record Null, a number n is Num(n) and a   *)
(* string s is Str(s).                                                     *)
(***************************************************************************)
EXTENDS Integers, Sequences, FiniteSets, TLC

VARIABLES
  text,      \* Normalizer: the argument of parseHumanNumber
  parsed,    \* Normalizer: its return value, Pending before the call
  company,   \* Identity: the slug of the company the reference names
  ref,       \* Identity: the raw reference handed to the normalizers
  canon,     \* Identity: outcome of ensureCompanyUrl(ref), Pending before
  vanity,    \* Identity: outcome of extractVanity(ref), Pending before
  reqUrl,    \* GET /scrape: req.query.url, <<>> when the parameter is missing
  hasLiAt,   \* GET /scrape: whether process.env.LI_AT is set
  qVoyager,  \* GET /scrape: req.query.voyager, lower-cased
  pc,        \* GET /scrape: the await the request is suspended at
  calls,     \* the requests resolveOrgId and scrapeCompany issued, in order
  errors,    \* resolveOrgId: its errors array
  orgId,     \* voyagerScrape: the resolved organization ID, Null before
  am,        \* voyagerScrape: associatedMembers
  fb,        \* voyagerScrape: employeeCountFallback
  jobs,      \* voyagerScrape: jobsPostedCount
  step,      \* position in the endpoint list of the running metric function
  first429,  \* the metric functions whose first call was answered HTTP 429
  after429,  \* those of them that issued a further call afterwards
  vres,      \* outcome of voyagerScrape: Pending, Returned(r) or Thrown(m)
  resp,      \* the HTTP response of GET /scrape, Pending before it is sent
  tried,     \* GET /scrape: the strategies it has called, in order
  got403,    \* the function whose call got the request's first HTTP 403
  after403,  \* that function, once it issued a further call afterwards
  site,      \* getEmployeeCount: what each page of the site shows
  epc,       \* getEmployeeCount: the page it is about to open
  visited,   \* getEmployeeCount: the pages opened so far, in order
  eres,      \* getEmployeeCount: Pending, Returned(r) or Thrown(m)
  api,       \* tryMultipleQueries: how the endpoint answers each query
  gpc,       \* tryMultipleQueries: the query it is about to run
  results,   \* tryMultipleQueries: its results object
  failed,    \* tryMultipleQueries: the queries whose executeQuery threw
  urlOrSlug, \* scrapeCompany: its argument
  jsite,     \* getJobsCount: what the jobs page, the nav link and the search show
  jpc,       \* getJobsCount: the page it is about to open
  jres,      \* getJobsCount: Pending, Returned(n) or Thrown(m)
  sres,      \* scrapeCompany: Pending, Returned(r) or Thrown(m)
  persisted, \* scrapeCompany: whether it saved the storage state
  persistentContextPromise, \* scrape.js: the module variable, 0 for null
  promises,  \* getPersistentContext: the promises it created, in order
  profile,   \* the cookie names the user-data directory held at start
  jar,       \* the cookie names the browser context holds
  added,     \* how many times addCookies was called
  cstate,    \* each caller of getPersistentContext: idle, waiting or done
  awaiting,  \* each caller: the promise it was handed, 0 before the call
  cres,      \* each caller: Pending, Returned(context) or Thrown(m)
  netCall,   \* network call: fetchText, fetchJson or executeQuery
  timeoutMs, \* network call: the deadline it was handed, in ticks
  upstream,  \* network call: how the upstream behaves
  netPc,     \* network call: the await it is suspended at
  timer,     \* network call: the setTimeout of withTimeout
  elapsed,   \* network call: ticks since the timer was armed
  netRes,    \* network call: Pending, Returned(v) or Thrown(m)
  env,       \* cookie headers: process.env, the variables that are set
  csrf,      \* cookie headers: the token buildHeaders drew
  cookieString, \* cookie headers: cookies of buildCookieString, Pending before
  cookie,    \* cookie headers: cookieParts of buildHeaders, Pending before
  jtStep,    \* voyagerJobsTotal: the call it is about to make, 0 when idle
  jtAnswers, \* voyagerJobsTotal: the answers to its calls so far, in order
  jtRes,     \* voyagerJobsTotal: Pending or Returned(v)
  sgUrl,     \* safeGoto: the sub-path of the page it is to open
  banner,    \* safeGoto: whether the page shows a consent banner
  attempt,   \* safeGoto: the loop variable
  gotos,     \* safeGoto: the outcome of each page.goto so far, in order
  waits,     \* safeGoto: the backoff waits so far, in ms
  at,        \* safeGoto: where the page is: blank, target or login
  sgPc,      \* safeGoto: the await it is suspended at
  dismissed, \* safeGoto: whether dismissBanners ran
  sgRes,     \* safeGoto: Pending, Returned(Null) or Thrown(m)
  extracted, \* getJobsCount: whether it went on to read the page
  srWhich,   \* search: getJobsCountViaSearch or getEmployeeCountViaSearch
  srBodies,  \* search: the JSON body of each response of the navigation
  srHandler, \* search: each response handler: none, json (awaiting) or done
  foundTotal, \* search: the closure variable foundTotal
  srDom,     \* search: what the DOM heuristics would find
  srPc,      \* search: nav, read or done
  srRes,     \* search: Pending, Returned(v) or Thrown(m)
  icLiAt,    \* incognito: whether LI_AT is set
  icCreds,   \* incognito: whether LINKEDIN_EMAIL and LINKEDIN_PASSWORD are set
  icPc,      \* incognito: the await scrapeCompany is suspended at
  openBrowsers, \* incognito: browsers launched and not closed
  settled,   \* incognito: the outcome of each scrapeCompany call so far
  stack,     \* page helpers: the running helper calls, the caller first
  pages,     \* page helpers: every page opened so far, with its state
  hres,      \* page helpers: Pending, Returned(v) or Thrown(m)
  tj,        \* deepFindTotals: the parsed JSON value it is handed
  tjRes      \* deepFindTotals: Pending, or its list and the total used

normVars == <<text, parsed>>
identVars == <<company, ref, canon, vanity>>
reqVars == <<reqUrl, hasLiAt, qVoyager>>
voyVars ==
  <<pc, calls, errors, orgId, am, fb, jobs, step, first429, after429, vres, resp,
    tried, got403, after403>>
empVars == <<site, epc, visited, eres>>
gqlVars == <<api, gpc, results, failed>>
brwVars == <<urlOrSlug, jsite, jpc, jres, sres, persisted>>
ctxVars ==
  <<persistentContextPromise, promises, profile, jar, added, cstate, awaiting, cres>>
netVars == <<netCall, timeoutMs, upstream, netPc, timer, elapsed, netRes>>
ckVars == <<env, csrf, cookieString, cookie>>
jtVars == <<jtStep, jtAnswers, jtRes>>
navVars ==
  <<sgUrl, banner, attempt, gotos, waits, at, sgPc, dismissed, sgRes, extracted>>
srVars == <<srWhich, srBodies, srHandler, foundTotal, srDom, srPc, srRes>>
incVars == <<icLiAt, icCreds, icPc, openBrowsers, settled>>
pgVars == <<stack, pages, hres>>
totVars == <<tj, tjRes>>
afterPg == <<totVars>>
afterInc == <<pgVars, afterPg>>
afterSr == <<incVars, afterInc>>
afterNav == <<srVars, afterSr>>
afterJt == <<navVars, afterNav>>
moreVars == <<jtVars, afterJt>>
tailVars == <<netVars, ckVars, moreVars>>
uptoCk ==
  <<normVars, identVars, reqVars, voyVars, empVars, gqlVars, brwVars, ctxVars,
    netVars, ckVars>>
uptoJt == <<uptoCk, jtVars>>
uptoNav == <<uptoJt, navVars>>
uptoSr == <<uptoNav, srVars>>
uptoInc == <<uptoSr, incVars>>
uptoPg == <<uptoInc, pgVars>>
afterBrw == <<ctxVars, tailVars>>
lateVars == <<brwVars, ctxVars, tailVars>>
vars == <<text, parsed, company, ref, canon, vanity, reqUrl, hasLiAt, qVoyager,
          pc, calls, errors, orgId, am, fb, jobs, step, first429, after429, vres,
          resp, tried, got403, after403, site, epc, visited, eres, api, gpc, results, failed,
          urlOrSlug, jsite, jpc, jres, sres, persisted,
          persistentContextPromise, promises, profile, jar, added, cstate,
          awaiting, cres,
          netCall, timeoutMs, upstream, netPc, timer, elapsed, netRes,
          env, csrf, cookieString, cookie,
          jtStep, jtAnswers, jtRes,
          sgUrl, banner, attempt, gotos, waits, at, sgPc, dismissed, sgRes, extracted,
          srWhich, srBodies, srHandler, foundTotal, srDom, srPc, srRes,
          icLiAt, icCreds, icPc, openBrowsers, settled, stack, pages, hres,
          tj, tjRes>>

(***************************************************************************)
(* Values                                                                  *)
(***************************************************************************)
Null == [null |-> TRUE]
Pending == [pending |-> TRUE]
Num(n) == [num |-> n]
Str(s) == [str |-> s]
Thrown(m) == [thrown |-> m]
IsNum(v) == DOMAIN v = {"num"}
IsStr(v) == DOMAIN v = {"str"}
IsThrown(v) == DOMAIN v = {"thrown"}

(***************************************************************************)
(* String primitives (String.prototype and the regular-expression pieces   *)
(* the code uses)                                                          *)
(***************************************************************************)
Digits == {"0","1","2","3","4","5","6","7","8","9"}
DigitVal(c) ==
  CASE c = "0" -> 0 [] c = "1" -> 1 [] c = "2" -> 2 [] c = "3" -> 3 [] c = "4" -> 4
    [] c = "5" -> 5 [] c = "6" -> 6 [] c = "7" -> 7 [] c = "8" -> 8 [] c = "9" -> 9

\* String.prototype.toLowerCase, one character
Lower(c) ==
  CASE c = "A" -> "a" [] c = "B" -> "b" [] c = "C" -> "c" [] c = "D" -> "d" [] c = "E" -> "e"
    [] c = "F" -> "f" [] c = "G" -> "g" [] c = "H" -> "h" [] c = "I" -> "i" [] c = "J" -> "j"
    [] c = "K" -> "k" [] c = "L" -> "l" [] c = "M" -> "m" [] c = "N" -> "n" [] c = "O" -> "o"
    [] c = "P" -> "p" [] c = "Q" -> "q" [] c = "R" -> "r" [] c = "S" -> "s" [] c = "T" -> "t"
    [] c = "U" -> "u" [] c = "V" -> "v" [] c = "W" -> "w" [] c = "X" -> "x" [] c = "Y" -> "y"
    [] c = "Z" -> "z"
    [] OTHER -> c
ToLowerCase(s) == [i \in 1..Len(s) |-> Lower(s[i])]

IsSpace(c) == c = " "

StartsWith(s, p) == Len(s) >= Len(p) /\ SubSeq(s, 1, Len(p)) = p
EndsWith(s, p) == Len(s) >= Len(p) /\ SubSeq(s, Len(s) - Len(p) + 1, Len(s)) = p
Includes(s, p) == \E i \in 1..(Len(s) - Len(p) + 1) : SubSeq(s, i, i + Len(p) - 1) = p
Drop(s, n) == SubSeq(s, n + 1, Len(s))

\* s.replace(/[...]/g, '') : drop every character of the set
RECURSIVE RemoveAll(_, _)
RemoveAll(s, set) ==
  IF s = <<>> THEN <<>>
  ELSE IF Head(s) \in set THEN RemoveAll(Tail(s), set)
       ELSE <<Head(s)>> \o RemoveAll(Tail(s), set)

\* s.replace(/[^0-9]/g, '') : keep the digits
RECURSIVE KeepDigits(_)
KeepDigits(s) ==
  IF s = <<>> THEN <<>>
  ELSE IF Head(s) \in Digits THEN <<Head(s)>> \o KeepDigits(Tail(s))
       ELSE KeepDigits(Tail(s))

RECURSIVE TrimStart(_)
TrimStart(s) == IF s # <<>> /\ IsSpace(Head(s)) THEN TrimStart(Tail(s)) ELSE s
RECURSIVE TrimEnd(_)
TrimEnd(s) ==
  IF s # <<>> /\ IsSpace(s[Len(s)]) THEN TrimEnd(SubSeq(s, 1, Len(s) - 1)) ELSE s
Trim(s) == TrimEnd(TrimStart(s))

\* s.replace(/X$/, '') for a one-character X
StripTrailing(s, c) ==
  IF s # <<>> /\ s[Len(s)] = c THEN SubSeq(s, 1, Len(s) - 1) ELSE s

AllDigits(s) == \A i \in 1..Len(s) : s[i] \in Digits

\* Number(digits) for a string of decimal digits
RECURSIVE DigitsToNat(_)
DigitsToNat(s) ==
  IF s = <<>> THEN 0
  ELSE 10 * DigitsToNat(SubSeq(s, 1, Len(s) - 1)) + DigitVal(s[Len(s)])

RECURSIVE Pow10(_)
Pow10(n) == IF n = 0 THEN 1 ELSE 10 * Pow10(n - 1)

\* index of the first occurrence of character c in s, 0 when absent
RECURSIVE IndexOfFrom(_, _, _)
IndexOfFrom(s, c, i) ==
  IF i > Len(s) THEN 0 ELSE IF s[i] = c THEN i ELSE IndexOfFrom(s, c, i + 1)
IndexOf(s, c) == IndexOfFrom(s, c, 1)

(***************************************************************************)
(* Numeric Normalizer: parseHumanNumber                                    *)
(***************************************************************************)
\* cleaned = String(input).trim().toLowerCase().replace(/[,\s]/g,'').replace(/\+$/,'')
Cleaned(input) ==
  StripTrailing(RemoveAll(ToLowerCase(Trim(input)), {",", " "}), "+")

\* cleaned.match(/^(\d+(?:\.\d+)?)([km])?$/i) : <<>> when there is no match,
\* else <<integer digits, fraction digits, suffix>> (suffix "" when absent)
NumberMatch(cleaned) ==
  LET n == Len(cleaned)
      hasSuffix == n > 0 /\ cleaned[n] \in {"k", "m"}
      body == IF hasSuffix THEN SubSeq(cleaned, 1, n - 1) ELSE cleaned
      suffix == IF hasSuffix THEN cleaned[n] ELSE ""
      dot == IndexOf(body, ".")
      int == IF dot = 0 THEN body ELSE SubSeq(body, 1, dot - 1)
      frac == IF dot = 0 THEN <<>> ELSE Drop(body, dot)
  IN IF /\ int # <<>>
        /\ AllDigits(int)
        /\ (dot = 0 \/ (frac # <<>> /\ AllDigits(frac)))
     THEN <<int, frac, suffix>>
     ELSE <<>>

\* Math.round(parseFloat(int.frac) * mult), computed exactly: round half up
RoundScaled(int, frac, mult) ==
  LET num == DigitsToNat(int \o frac) * mult
      den == Pow10(Len(frac))
  IN (2 * num + den) \div (2 * den)

\* a parseHumanNumber that forgets the magnitude suffix
parseHumanNumberNoSuffix(input) ==
  IF input = <<>> THEN Null
  ELSE LET cleaned == Cleaned(input)
           m == NumberMatch(cleaned)
       IN IF m = <<>>
          THEN LET digits == KeepDigits(cleaned)
               IN IF digits # <<>> THEN Num(DigitsToNat(digits)) ELSE Null
          ELSE Num(RoundScaled(m[1], m[2], 1))

parseHumanNumber(input) ==
  IF input = <<>> THEN Null
  ELSE LET cleaned == Cleaned(input)
           m == NumberMatch(cleaned)
       IN IF m = <<>>
          THEN LET digits == KeepDigits(cleaned)
               IN IF digits # <<>> THEN Num(DigitsToNat(digits)) ELSE Null
          ELSE IF m[3] = "" THEN Num(RoundScaled(m[1], m[2], 1))
          ELSE IF m[3] = "k" THEN Num(RoundScaled(m[1], m[2], 1000))
          ELSE IF m[3] = "m" THEN Num(RoundScaled(m[1], m[2], 1000000))
          ELSE Num(RoundScaled(m[1], m[2], 1))

(***************************************************************************)
(* The URL class (WHATWG parser) on the references the model uses: a       *)
(* special scheme, an authority of a host alone, a path and a query.       *)
(***************************************************************************)
S_https == <<"h","t","t","p","s",":","/","/">>
S_http == <<"h","t","t","p",":","/","/">>
S_companyPrefix == <<"h","t","t","p","s",":","/","/","w","w","w",".","l","i","n","k","e","d","i","n",".","c","o","m","/","c","o","m","p","a","n","y","/">>
S_wwwLinkedin == <<"w","w","w",".","l","i","n","k","e","d","i","n",".","c","o","m">>
S_linkedinCom == <<"l","i","n","k","e","d","i","n",".","c","o","m">>
S_company == <<"c","o","m","p","a","n","y">>
S_slashCompanySlash == <<"/","c","o","m","p","a","n","y","/">>
S_www == <<"w","w","w",".">>

\* /^https?:\/\//i.test(s)
HasScheme(s) ==
  LET l == ToLowerCase(s) IN StartsWith(l, S_https) \/ StartsWith(l, S_http)

RECURSIVE SkipSlashes(_)
SkipSlashes(s) == IF s # <<>> /\ Head(s) = "/" THEN SkipSlashes(Tail(s)) ELSE s

\* length of the longest prefix of s that holds none of the characters of stop
RECURSIVE PrefixLen(_, _)
PrefixLen(s, stop) ==
  IF s = <<>> \/ Head(s) \in stop THEN 0 ELSE 1 + PrefixLen(Tail(s), stop)

HostChars ==
  {"a","b","c","d","e","f","g","h","i","j","k","l","m","n","o","p","q","r","s",
   "t","u","v","w","x","y","z","-","."} \cup Digits

\* new URL(s) for a string that starts with http:// or https:// :
\* [ok |-> FALSE] stands for the TypeError "Invalid URL"
ParseURL(s) ==
  LET l == ToLowerCase(s)
      protocol == IF StartsWith(l, S_https) THEN <<"h","t","t","p","s",":">>
                  ELSE <<"h","t","t","p",":">>
      rest == SkipSlashes(Drop(s, Len(protocol)))
      hlen == PrefixLen(rest, {"/", "?"})
      host == ToLowerCase(SubSeq(rest, 1, hlen))
      after == Drop(rest, hlen)
      plen == PrefixLen(after, {"?"})
      path == SubSeq(after, 1, plen)
      search == Drop(after, plen)
  IN IF host = <<>> \/ \E i \in 1..Len(host) : host[i] \notin HostChars
     THEN [ok |-> FALSE]
     ELSE [ok |-> TRUE, protocol |-> protocol, hostname |-> host,
           pathname |-> IF path = <<>> THEN <<"/">> ELSE path,
           search |-> IF search = <<"?">> THEN <<>> ELSE search]

\* url.toString()
Href(u) == u.protocol \o <<"/","/">> \o u.hostname \o u.pathname \o u.search

\* s.split('/').filter(Boolean)
RECURSIVE SplitPath(_)
SplitPath(s) ==
  IF s = <<>> THEN <<>>
  ELSE IF Head(s) = "/" THEN SplitPath(Tail(s))
  ELSE LET n == PrefixLen(s, {"/"})
       IN <<SubSeq(s, 1, n)>> \o SplitPath(Drop(s, n))

\* parts.findIndex(p => p.toLowerCase() === 'company'), 1-based, 0 when absent
RECURSIVE FindCompany(_, _)
FindCompany(parts, i) ==
  IF i > Len(parts) THEN 0
  ELSE IF ToLowerCase(parts[i]) = S_company THEN i
  ELSE FindCompany(parts, i + 1)

(***************************************************************************)
(* Identity Resolver: ensureCompanyUrl and extractVanity                   *)
(***************************************************************************)
E_notLinkedIn == "URL must be a LinkedIn URL"
E_noSlug == "Provide a LinkedIn company URL or company slug path."
E_invalidUrl == "Invalid URL"

\* /linkedin\.com$/i.test(hostname), the test ensureCompanyUrl applies
HostAccepted(hostname) ==
  \/ EndsWith(ToLowerCase(hostname), S_linkedinCom)
  \/ EndsWith(ToLowerCase(IF StartsWith(hostname, S_www)
                          THEN Drop(hostname, Len(S_www)) ELSE hostname),
              S_linkedinCom)

\* ensureCompanyUrl(rawUrl): Str(canonical URL) or Thrown(message)
ensureCompanyUrl(rawUrl) ==
  LET raw == IF ~HasScheme(rawUrl) /\ ~Includes(rawUrl, <<".">>)
               THEN S_companyPrefix \o rawUrl \o <<"/">>
             ELSE IF ~HasScheme(rawUrl) THEN S_https \o rawUrl
             ELSE rawUrl
      url == ParseURL(raw)
  IN IF ~url.ok THEN Thrown(E_invalidUrl)
     ELSE IF ~HostAccepted(url.hostname) THEN Thrown(E_notLinkedIn)
     ELSE LET parts == SplitPath(url.pathname)
              coerce == ~Includes(ToLowerCase(url.pathname), S_slashCompanySlash)
          IN IF coerce /\ parts = <<>> THEN Thrown(E_noSlug)
             ELSE LET u1 == IF coerce
                            THEN [url EXCEPT !.pathname =
                                               S_slashCompanySlash \o parts[1] \o <<"/">>,
                                             !.search = <<>>]
                            ELSE url
                      u2 == IF EndsWith(u1.pathname, <<"/">>) THEN u1
                            ELSE [u1 EXCEPT !.pathname = u1.pathname \o <<"/">>]
                  IN Str(Href([u2 EXCEPT !.hostname = S_wwwLinkedin]))

\* extractVanity(inputUrl): Str(slug) or Null
extractVanity(inputUrl) ==
  IF ~HasScheme(inputUrl) /\ ~Includes(inputUrl, <<"/">>) /\ ~Includes(inputUrl, <<".">>)
  THEN Str(StripTrailing(Trim(inputUrl), "/"))
  ELSE LET full == IF ~HasScheme(inputUrl)
                     THEN S_companyPrefix \o inputUrl \o <<"/">>
                   ELSE inputUrl
           u == ParseURL(full)
       IN IF ~u.ok THEN Null
          ELSE LET parts == SplitPath(u.pathname)
                   idx == FindCompany(parts, 1)
               IN IF idx > 0 /\ idx + 1 <= Len(parts) THEN Str(parts[idx + 1])
                  ELSE IF parts # <<>> THEN Str(parts[1])
                  ELSE Null

(***************************************************************************)
(* Inputs                                                                  *)
(***************************************************************************)
MaxTextLen == 3

NumAlphabet == {"0", "1", "2", "5", ",", ".", "k", "K", "m", "+", "a", " "}

\* the examples of the Numeric Normalizer's contract
T_1234 == <<"1",",","2","3","4">>
T_25k == <<"2",".","5","k">>
T_10m == <<"1","0","m">>
T_500plus == <<"5","0","0","+">>
T_abc == <<"a","b","c">>

Texts ==
  UNION {[1..n -> NumAlphabet] : n \in 0..MaxTextLen}
    \cup {T_1234, T_25k, T_10m, T_500plus, T_abc}

Slugs == {<<"m","s">>, <<"m","i","c","r","o","s","o","f","t">>}

Schemes == {<<>>, S_https, S_http, <<"H","T","T","P","S",":","/","/">>}

H_uk == <<"u","k",".","l","i","n","k","e","d","i","n",".","c","o","m">>
H_evilLinkedin == <<"e","v","i","l","l","i","n","k","e","d","i","n",".","c","o","m">>
H_evil == <<"e","v","i","l",".","c","o","m">>
H_linkedinEvil == <<"l","i","n","k","e","d","i","n",".","c","o","m",".","e","v","i","l",".","c","o","m">>

Hosts == {S_linkedinCom, S_wwwLinkedin, H_uk, H_evilLinkedin, H_evil, H_linkedinEvil}

\* linkedin.com and its subdomains: the allowed domain family
InFamily(hostname) ==
  hostname = S_linkedinCom \/ EndsWith(hostname, <<".">> \o S_linkedinCom)

Paths(c) ==
  {<<>>, <<"/">>,
   S_slashCompanySlash \o c,
   S_slashCompanySlash \o c \o <<"/">>,
   S_slashCompanySlash \o c \o <<"/","j","o","b","s">>,
   S_slashCompanySlash \o c \o <<"?","t","r","k","=","1">>,
   <<"/">> \o c,
   <<"/","c","o","m","p","a","n","y">>}

\* references that name a host
HostRefs(c) == {s \o h \o p : s \in Schemes, h \in Hosts, p \in Paths(c)}

\* references that name no host: a bare slug and relative paths
BareRefs(c) ==
  {c, c \o <<"/">>, S_company \o <<"/">> \o c, S_slashCompanySlash \o c}

Refs(c) == HostRefs(c) \cup BareRefs(c)

(***************************************************************************)
(* Specification of the Numeric Normalizer: one call of parseHumanNumber   *)
(***************************************************************************)
NormIdle == text = <<>> /\ parsed = Pending
IdentIdle == company = <<>> /\ ref = <<>> /\ canon = Pending /\ vanity = Pending
ReqIdle == reqUrl = <<>> /\ hasLiAt = FALSE /\ qVoyager = ""
VoyIdle ==
  /\ pc = "idle" /\ calls = <<>> /\ errors = <<>>
  /\ orgId = Null /\ am = Null /\ fb = Null /\ jobs = Null
  /\ step = 0 /\ first429 = {} /\ after429 = {}
  /\ vres = Pending /\ resp = Pending /\ tried = <<>>
  /\ got403 = {} /\ after403 = {}
ScrapeIdle == ReqIdle /\ VoyIdle
EmpIdle == site = Null /\ epc = "idle" /\ visited = <<>> /\ eres = Pending
GqlIdle == api = Null /\ gpc = "idle" /\ results = Null /\ failed = {}
BrwIdle ==
  /\ urlOrSlug = <<>> /\ jsite = Null /\ jpc = "idle"
  /\ jres = Pending /\ sres = Pending /\ persisted = FALSE
CtxIdle ==
  /\ persistentContextPromise = 0 /\ promises = <<>>
  /\ profile = {} /\ jar = {} /\ added = 0
  /\ cstate = <<>> /\ awaiting = <<>> /\ cres = <<>>
NetIdle ==
  /\ netCall = "none" /\ timeoutMs = 0 /\ upstream = Null /\ netPc = "idle"
  /\ timer = "none" /\ elapsed = 0 /\ netRes = Pending
CkIdle == env = <<>> /\ csrf = <<>> /\ cookieString = Pending /\ cookie = Pending
JtIdle == jtStep = 0 /\ jtAnswers = <<>> /\ jtRes = Pending
NavIdle ==
  /\ sgUrl = <<>> /\ banner = FALSE /\ attempt = 0 /\ gotos = <<>> /\ waits = <<>>
  /\ at = "blank" /\ sgPc = "idle" /\ dismissed = FALSE /\ sgRes = Pending
  /\ extracted = FALSE
SrIdle ==
  /\ srWhich = "" /\ srBodies = <<>> /\ srHandler = <<>> /\ foundTotal = Null
  /\ srDom = Null /\ srPc = "idle" /\ srRes = Pending
IncIdle ==
  /\ icLiAt = FALSE /\ icCreds = FALSE /\ icPc = "idle"
  /\ openBrowsers = 0 /\ settled = <<>>
PgIdle == stack = <<>> /\ pages = <<>> /\ hres = Pending
TotIdle == tj = Null /\ tjRes = Pending
AfterPgIdle == TotIdle
AfterIncIdle == PgIdle /\ AfterPgIdle
AfterSrIdle == IncIdle /\ AfterIncIdle
AfterNavIdle == SrIdle /\ AfterSrIdle
AfterJtIdle == NavIdle /\ AfterNavIdle
MoreIdle == JtIdle /\ AfterJtIdle
TailIdle == NetIdle /\ CkIdle /\ MoreIdle
LateIdle == BrwIdle /\ CtxIdle /\ TailIdle

Parse ==
  /\ parsed = Pending
  /\ parsed' = parseHumanNumber(text)
  /\ UNCHANGED <<text, identVars, reqVars, voyVars, empVars, gqlVars, lateVars>>

NormInit ==
  /\ text \in Texts /\ parsed = Pending
  /\ IdentIdle /\ ScrapeIdle /\ EmpIdle /\ GqlIdle /\ LateIdle
NormNext == Parse
SpecNormalizer == NormInit /\ [][NormNext]_vars

(***************************************************************************)
(* Specification of the Identity Resolver's pure part: a reference is      *)
(* normalized (ensureCompanyUrl) and its slug extracted (extractVanity)    *)
(***************************************************************************)
Normalize ==
  /\ canon = Pending
  /\ canon' = ensureCompanyUrl(ref)
  /\ UNCHANGED <<company, ref, vanity, normVars, reqVars, voyVars, empVars, gqlVars, lateVars>>

ExtractSlug ==
  /\ vanity = Pending
  /\ vanity' = extractVanity(ref)
  /\ UNCHANGED <<company, ref, canon, normVars, reqVars, voyVars, empVars, gqlVars, lateVars>>

IdentInit ==
  /\ company \in Slugs
  /\ ref \in Refs(company)
  /\ canon = Pending
  /\ vanity = Pending
  /\ NormIdle
  /\ ScrapeIdle
  /\ EmpIdle
  /\ GqlIdle
  /\ LateIdle
IdentNext == Normalize \/ ExtractSlug
SpecIdentity == IdentInit /\ [][IdentNext]_vars

(***************************************************************************)
(* Claims about the Numeric Normalizer and the reference normalizers       *)
(***************************************************************************)
NoDigit(s) == \A i \in 1..Len(s) : s[i] \notin Digits

\* C8: parseHumanNumber gives 1234 for "1,234", 2500 for "2.5k", 10000000 for
\* "10m", 500 for "500+" and null for "" and "abc"; on every text it returns
\* null or a non-negative integer, and a text that holds no digit gives null.
C8_ParseContract ==
  parsed # Pending =>
    /\ (text = T_1234 => parsed = Num(1234))
    /\ (text = T_25k => parsed = Num(2500))
    /\ (text = T_10m => parsed = Num(10000000))
    /\ (text = T_500plus => parsed = Num(500))
    /\ (text = <<>> => parsed = Null)
    /\ (text = T_abc => parsed = Null)
    /\ (parsed = Null \/ (IsNum(parsed) /\ parsed.num \in Nat))
    /\ (NoDigit(text) => parsed = Null)

C8_Witness == text = T_25k /\ parsed = Num(2500)

\* the three spellings of a company the contract names, and the general forms:
\* bare slug, relative path, full URL with or without scheme
Canonical(c) == S_companyPrefix \o c \o <<"/">>
ExampleForms(c) ==
  {c, S_linkedinCom \o S_slashCompanySlash \o c, Canonical(c)}
SlugForms(c) ==
  {c, S_slashCompanySlash \o c}
    \cup {s \o h \o S_slashCompanySlash \o c \o t :
            s \in {<<>>, S_https, S_http}, h \in {S_linkedinCom, S_wwwLinkedin},
            t \in {<<>>, <<"/">>}}

\* C2: "microsoft", "linkedin.com/company/microsoft" and
\* "https://www.linkedin.com/company/microsoft/" normalize to the same
\* canonical URL, and every form of a reference to one company (bare slug,
\* relative path, URL with or without scheme) yields that company's slug.
C2_SameUrlAndSlug ==
  /\ (canon # Pending /\ ref \in ExampleForms(company)
        => canon = Str(Canonical(company)))
  /\ (vanity # Pending /\ ref \in ExampleForms(company) \cup SlugForms(company)
        => vanity = Str(company))

\* the host a reference names, as the URL parser reads it
RefHost(r) ==
  LET u == ParseURL(IF HasScheme(r) THEN r ELSE S_https \o r)
  IN IF u.ok THEN u.hostname ELSE <<>>
NamesForeignHost(r) ==
  (HasScheme(r) \/ Includes(r, <<".">>)) /\ RefHost(r) # <<>> /\ ~InFamily(RefHost(r))

\* C9: ensureCompanyUrl fails (throws) for every reference whose host is
\* neither linkedin.com nor a subdomain of it: no such reference is accepted
\* and rewritten to a www.linkedin.com URL.
C9_ForeignHostRejected ==
  (canon # Pending /\ NamesForeignHost(ref)) => IsThrown(canon)

(***************************************************************************)
(* Upstream bodies.  A JSON value is null, a number, a string, an object   *)
(* (its entries in serialization order) or an array.  A string is kept as  *)
(* the organization URNs its text holds, which is all the code reads of    *)
(* it.  An HTML page is kept as what each of the code's regular            *)
(* expressions finds in it.                                                *)
(***************************************************************************)
JNull == [t |-> "null"]
JNum(n) == [t |-> "num", v |-> n]
JStr(urns) == [t |-> "str", urns |-> urns]
JObj(entries) == [t |-> "obj", e |-> entries]
JArr(items) == [t |-> "arr", e |-> items]
KV(k, v) == [k |-> k, v |-> v]

\* an occurrence of urn:li:organization:<id> or urn:li:fs_miniCompany:<id>
Urn(form, id) == [form |-> form, id |-> id]

K_total == <<"t","o","t","a","l">>
K_totalResults == <<"t","o","t","a","l","R","e","s","u","l","t","s">>
K_totalHits == <<"t","o","t","a","l","H","i","t","s">>
K_numResults == <<"n","u","m","R","e","s","u","l","t","s">>
K_count == <<"c","o","u","n","t">>
K_associatedMemberCount == <<"a","s","s","o","c","i","a","t","e","d","M","e","m","b","e","r","C","o","u","n","t">>
K_staffCount == <<"s","t","a","f","f","C","o","u","n","t">>
K_employeeCount == <<"e","m","p","l","o","y","e","e","C","o","u","n","t">>
K_memberCount == <<"m","e","m","b","e","r","C","o","u","n","t">>
K_totalCount == <<"t","o","t","a","l","C","o","u","n","t">>
K_peopleCount == <<"p","e","o","p","l","e","C","o","u","n","t">>
K_staffCountRange == <<"s","t","a","f","f","C","o","u","n","t","R","a","n","g","e">>
K_start == <<"s","t","a","r","t">>
K_end == <<"e","n","d">>
K_paging == <<"p","a","g","i","n","g">>
K_elements == <<"e","l","e","m","e","n","t","s">>
K_data == <<"d","a","t","a">>
K_entityUrn == <<"e","n","t","i","t","y","U","r","n">>

\* the values deepFindTotals descends into, typeof v === 'object': objects
\* and arrays; IsPlainObject leaves the arrays out
IsPlainObject(j) == j.t = "obj"
IsContainer(j) == j.t \in {"obj", "arr"}
\* the values of a container, in Object.entries order
ValueAt(j, i) == IF j.t = "obj" THEN j.e[i].v ELSE j.e[i]
\* the key of entry i: an array's keys are its indices, never a name
KeyAt(j, i) == IF j.t = "obj" THEN j.e[i].k ELSE <<>>

\* JavaScript truthiness of a parsed body: if (json)
JsonTruthy(j) == ~(j.t = "null" \/ (j.t = "num" /\ j.v = 0))

TotalKeys ==
  {ToLowerCase(K_total), ToLowerCase(K_totalResults), ToLowerCase(K_totalHits),
   ToLowerCase(K_numResults)}

\* deepFindTotals(obj): every number under a total-like key, depth first
RECURSIVE deepFindTotals(_)
RECURSIVE DeepFindFrom(_, _)
DeepFindFrom(j, i) ==
  IF i > Len(j.e) THEN <<>>
  ELSE LET v == ValueAt(j, i)
           here == IF ToLowerCase(KeyAt(j, i)) \in TotalKeys /\ v.t = "num"
                   THEN <<v.v>> ELSE <<>>
           below == IF IsContainer(v) THEN deepFindTotals(v) ELSE <<>>
       IN here \o below \o DeepFindFrom(j, i + 1)
deepFindTotals(obj) == IF ~IsContainer(obj) THEN <<>> ELSE DeepFindFrom(obj, 1)

\* Math.max(...list) of a non-empty list
RECURSIVE MaxOf(_)
MaxOf(list) ==
  IF Len(list) = 1 THEN list[1]
  ELSE LET m == MaxOf(Tail(list)) IN IF list[1] >= m THEN list[1] ELSE m

\* the URN occurrences of JSON.stringify(json), in text order
RECURSIVE UrnsOfJson(_)
RECURSIVE UrnsFrom(_, _)
UrnsFrom(j, i) ==
  IF i > Len(j.e) THEN <<>> ELSE UrnsOfJson(ValueAt(j, i)) \o UrnsFrom(j, i + 1)
UrnsOfJson(j) ==
  IF j.t = "str" THEN j.urns ELSE IF IsContainer(j) THEN UrnsFrom(j, 1) ELSE <<>>

\* the first occurrence of the given form, Null when there is none
RECURSIVE FirstUrn(_, _)
FirstUrn(urns, form) ==
  IF urns = <<>> THEN Null
  ELSE IF Head(urns).form = form THEN Str(Head(urns).id)
  ELSE FirstUrn(Tail(urns), form)

\* findFirstOrgIdInHtml(html), on the URN occurrences of the text.  The third
\* pattern ("entityUrn":"urn:li:organization:N") holds the first one, so it
\* never matches where the first did not.
findFirstOrgIdInHtml(urns) ==
  LET m1 == FirstUrn(urns, "organization")
      m2 == FirstUrn(urns, "fs_miniCompany")
  IN IF m1 # Null THEN m1 ELSE IF m2 # Null THEN m2 ELSE Null

\* jsonStr.match(/"key":\s*(\d+)/i): the number of the first entry, in
\* serialization order, whose key is `key` ignoring case; Null when none
RECURSIVE FirstNumberUnder(_, _)
RECURSIVE FirstNumberFrom(_, _, _)
FirstNumberFrom(j, key, i) ==
  IF i > Len(j.e) THEN Null
  ELSE LET v == ValueAt(j, i)
           here == IF ToLowerCase(KeyAt(j, i)) = ToLowerCase(key) /\ v.t = "num"
                   THEN Num(v.v) ELSE Null
           below == IF IsContainer(v) THEN FirstNumberUnder(v, key) ELSE Null
       IN IF here # Null THEN here
          ELSE IF below # Null THEN below
          ELSE FirstNumberFrom(j, key, i + 1)
FirstNumberUnder(j, key) ==
  IF ~IsContainer(j) THEN Null ELSE FirstNumberFrom(j, key, 1)

\* txt.match(/staffCountRange":{"start":(\d+)/): the start of the first
\* staffCountRange object whose first entry is a numeric start
RECURSIVE StaffRangeStart(_)
RECURSIVE StaffRangeFrom(_, _)
StaffRangeFrom(j, i) ==
  IF i > Len(j.e) THEN Null
  ELSE LET v == ValueAt(j, i)
           here == IF /\ KeyAt(j, i) = K_staffCountRange
                      /\ v.t = "obj" /\ Len(v.e) >= 1
                      /\ v.e[1].k = K_start /\ v.e[1].v.t = "num"
                   THEN Num(v.e[1].v.v) ELSE Null
           below == IF IsContainer(v) THEN StaffRangeStart(v) ELSE Null
       IN IF here # Null THEN here
          ELSE IF below # Null THEN below
          ELSE StaffRangeFrom(j, i + 1)
StaffRangeStart(j) == IF ~IsContainer(j) THEN Null ELSE StaffRangeFrom(j, 1)

\* the first value of a list of Num that exceeds 100; Null when none
RECURSIVE FirstOver100(_)
FirstOver100(list) ==
  IF list = <<>> THEN Null
  ELSE IF IsNum(Head(list)) /\ Head(list).num > 100 THEN Head(list)
  ELSE FirstOver100(Tail(list))

\* Number(s) of a captured numeric text: a natural, a decimal or NaN
NaN == [nan |-> TRUE]
Dec(int, frac) == [int |-> int, frac |-> frac]
JsNumber(s) ==
  LET dot == IndexOf(s, ".")
      int == IF dot = 0 THEN s ELSE SubSeq(s, 1, dot - 1)
      frac == IF dot = 0 THEN <<>> ELSE Drop(s, dot)
  IN IF s = <<>> THEN Num(0)
     ELSE IF ~(AllDigits(int) /\ AllDigits(frac)) \/ int \o frac = <<>> THEN NaN
     ELSE IF DigitsToNat(frac) = 0 THEN Num(DigitsToNat(int))
     ELSE Dec(DigitsToNat(int), frac)

\* Number.isFinite(num) && num > 100
Over100(v) ==
  \/ (IsNum(v) /\ v.num > 100)
  \/ (DOMAIN v = {"int", "frac"} /\ v.int >= 100)

\* String(n) of a natural
RECURSIVE NatToChars(_)
DigitChar(d) ==
  CASE d = 0 -> "0" [] d = 1 -> "1" [] d = 2 -> "2" [] d = 3 -> "3" [] d = 4 -> "4"
    [] d = 5 -> "5" [] d = 6 -> "6" [] d = 7 -> "7" [] d = 8 -> "8" [] d = 9 -> "9"
NatToChars(n) ==
  IF n < 10 THEN <<DigitChar(n)>> ELSE NatToChars(n \div 10) \o <<DigitChar(n % 10)>>

\* an HTML page: the URN occurrences of its text, the texts the
\* associated-members patterns capture (in pattern order), the counts the
\* embedded-JSON patterns find in its script elements (in scan order), and
\* the text the "N results" / "has N job openings" patterns capture
Html(urns, members, scripts, resultsText) ==
  [empty |-> FALSE, urns |-> urns, members |-> members, scripts |-> scripts,
   results |-> resultsText]
P_empty == [empty |-> TRUE, urns |-> <<>>, members |-> <<>>, scripts |-> <<>>,
            results |-> Null]
P_plain == Html(<<>>, <<>>, <<>>, Null)
P_company ==
  Html(<<Urn("fs_miniCompany", "77"), Urn("organization", "1035")>>,
       <<<<"5","0">>, <<"1",",","2","3","4">>>>, <<>>, Null)
P_scripts == Html(<<Urn("fs_miniCompany", "77")>>, <<>>, <<12, 5000>>, Null)
P_jobs == Html(<<>>, <<>>, <<>>, Str(<<"1",",","2","3","4">>))
P_jobsK == Html(<<>>, <<>>, <<>>, Str(<<"2",".","5","k">>))
HtmlPages == {P_empty, P_plain, P_company, P_scripts, P_jobs, P_jobsK}

J_empty == JObj(<<>>)
J_org ==
  JObj(<<KV(K_elements,
            JArr(<<JObj(<<KV(K_entityUrn, JStr(<<Urn("organization", "1035")>>)),
                          KV(K_staffCount, JNum(221000)),
                          KV(K_staffCountRange,
                             JObj(<<KV(K_start, JNum(10001)),
                                    KV(K_end, JNum(50000))>>))>>)>>))>>)
J_zero == JObj(<<KV(K_paging, JObj(<<KV(K_total, JNum(0))>>))>>)
J_small == JObj(<<KV(K_paging, JObj(<<KV(K_total, JNum(40))>>))>>)
J_totals ==
  JObj(<<KV(K_data, JObj(<<KV(K_paging, JObj(<<KV(K_count, JNum(10)),
                                               KV(K_totalResults, JNum(500))>>))>>)),
         KV(K_elements, JArr(<<JObj(<<KV(K_total, JNum(3))>>)>>))>>)
JsonBodies == {JNull, J_empty, J_org, J_zero, J_small, J_totals}

(***************************************************************************)
(* Outcomes of one fetch and the messages of the errors fetchJson and      *)
(* fetchText throw.  A message is a sequence of pieces: a piece is one     *)
(* character, or a fixed text that holds no digit.                         *)
(***************************************************************************)
ErrStatuses == {403, 404, 429}
HttpError(s) == [k |-> "http", status |-> s]
TimedOut == [k |-> "timeout"]
BadJson == [k |-> "badjson"]
Ok(body) == [k |-> "ok", body |-> body]

JsonOutcomes ==
  {HttpError(s) : s \in ErrStatuses} \cup {TimedOut, BadJson}
    \cup {Ok(b) : b \in JsonBodies}
TextOutcomes ==
  {HttpError(s) : s \in ErrStatuses} \cup {TimedOut} \cup {Ok(p) : p \in HtmlPages}

VOYAGER_TIMEOUT_MS == 12000

\* the message of the error a failed fetch of url throws
FetchErrorMessage(o, url) ==
  IF o.k = "http" THEN <<"HTTP ">> \o NatToChars(o.status) \o <<" for ">> \o url
  ELSE IF o.k = "timeout"
    THEN <<"Timeout ">> \o NatToChars(VOYAGER_TIMEOUT_MS) \o <<"ms">>
  ELSE <<"Unexpected token in JSON">>

S_429 == <<"4","2","9">>
S_rateLimit == <<"r","a","t","e"," ","l","i","m","i","t">>

\* encodeURIComponent, on the characters references use
RECURSIVE encodeURIComponent(_)
encodeURIComponent(s) ==
  IF s = <<>> THEN <<>>
  ELSE (CASE Head(s) = "/" -> <<"%","2","F">>
          [] Head(s) = ":" -> <<"%","3","A">>
          [] Head(s) = "?" -> <<"%","3","F">>
          [] Head(s) = "=" -> <<"%","3","D">>
          [] OTHER -> <<Head(s)>>) \o encodeURIComponent(Tail(s))

\* array.join('; ') of messages
RECURSIVE JoinMessages(_)
JoinMessages(list) ==
  IF list = <<>> THEN <<>>
  ELSE IF Len(list) = 1 THEN list[1]
  ELSE list[1] \o <<"; ">> \o JoinMessages(Tail(list))

(***************************************************************************)
(* GET /scrape on the semi-structured path: voyagerScrape, resolveOrgId    *)
(* and the three metric functions.  One action is one network call: from   *)
(* the pacing delay before the fetch to the await of the next one.         *)
(***************************************************************************)
C_ms == <<"m","s">>
\* a company whose slug holds the digits 429
C_a429 == <<"a","4","2","9">>
VoyagerRefs ==
  {<<>>,
   C_ms,
   Canonical(C_a429),
   S_https \o H_evil \o S_slashCompanySlash \o C_ms,
   S_https \o S_wwwLinkedin \o <<"/">>}

Returned(r) == [returned |-> r]
IsReturned(v) == DOMAIN v = {"returned"}

\* JavaScript truthiness of a value that is null, a number or a string
TruthyUnlessNull(v) == v # Null
Truthy(v) ==
  \/ (IsNum(v) /\ v.num # 0)
  \/ (IsStr(v) /\ v.str # <<>>)
  \/ DOMAIN v = {"int", "frac"}

\* a ?? b
Coalesce(a, b) == IF a # Null THEN a ELSE b

Call(fn, ep, host) == [fn |-> fn, ep |-> ep, host |-> host]

\* server.js: wantVoyager
wantVoyagerOnlyWhenAsked == qVoyager = "true"
wantVoyager == qVoyager = "true" \/ (qVoyager = "" /\ hasLiAt)

\* resolveOrgId: normalizedUrl, aboutUrl and the vanity-lookup URL
NormalizedUrl(companyUrl) ==
  IF ~HasScheme(companyUrl) THEN S_companyPrefix \o companyUrl \o <<"/">>
  ELSE companyUrl
AboutUrl(companyUrl) ==
  IF EndsWith(NormalizedUrl(companyUrl), <<"/">>)
  THEN NormalizedUrl(companyUrl) \o <<"a","b","o","u","t","/">>
  ELSE NormalizedUrl(companyUrl) \o <<"/","a","b","o","u","t","/">>
VanityLookupUrl(v) ==
  S_https \o S_wwwLinkedin
    \o <<"/voyager/api/organization/companies?vanityName=">>
    \o encodeURIComponent(v)

\* the host fetch(url) connects to
FetchHost(u) == ParseURL(u).hostname

M_apiPrefix == <<"Voyager API method: ">>
M_htmlPrefix == <<"HTML method: ">>
M_aboutPrefix == <<"About page method: ">>
M_noVanity == M_apiPrefix \o <<"Could not extract vanity name from URL">>
M_apiNoId == M_apiPrefix \o <<"No org ID found in API response">>
M_apiEmpty == M_apiPrefix \o <<"Empty response">>
M_htmlNoId == M_htmlPrefix \o <<"No org ID found in page content">>
M_aboutNoId == M_aboutPrefix \o <<"No org ID found in about page">>
M_resolveFailed ==
  <<"Could not resolve organization ID from company page. Attempts: ">>
M_noLiAt == <<"LI_AT cookie required for Voyager mode">>

\* voyagerScrape's answer to an error it takes for rate limiting
RateLimitedResult ==
  [orgId |-> Null, employeeCount |-> Null, associatedMembers |-> Null,
   employeeCountRange |-> Null, jobsPostedCount |-> Null,
   dataSource |-> "rate_limited", rateLimited |-> TRUE]

\* voyagerScrape's result once the three metric functions have returned
ScrapeResult(id, members, fallback, jobCount) ==
  [orgId |-> id,
   employeeCount |-> Coalesce(members, Coalesce(fallback, Null)),
   associatedMembers |-> members,
   employeeCountRange |->
     IF Truthy(members) THEN Null
     ELSE IF Truthy(fallback) THEN Str(NatToChars(fallback.num) \o <<"+">>)
     ELSE Null,
   jobsPostedCount |-> jobCount,
   dataSource |->
     IF Truthy(members) THEN "associated_members"
     ELSE IF Truthy(fallback) THEN "employee_search" ELSE "none",
   rateLimited |-> FALSE]

\* the pc after resolveOrgId returned: voyagerAssociatedMembers returns null
\* at once when no vanity name can be extracted
AfterResolve == IF Truthy(extractVanity(reqUrl)) THEN "am" ELSE "fb"

\* resolveOrgId: the step that follows a failed step
StepAfterSkipsPage(p) == "r3"
StepAfter(p) == IF p = "r1" THEN "r2" ELSE "r3"

\* GET /scrape up to its first await
Receive ==
  /\ pc = "start"
  /\ tried' = IF reqUrl # <<>> /\ wantVoyager THEN <<"voyager">> ELSE tried
  /\ IF reqUrl = <<>>
       THEN /\ resp' = [status |-> 400, error |-> <<"Missing url parameter">>]
            /\ pc' = "done"
            /\ UNCHANGED <<errors, vres>>
     ELSE IF wantVoyager /\ ~hasLiAt
       THEN /\ vres' = Thrown(M_noLiAt)
            /\ pc' = "fallback"
            /\ UNCHANGED <<errors, resp>>
     ELSE IF wantVoyager
       THEN /\ IF Truthy(extractVanity(reqUrl))
                 THEN pc' = "r1" /\ errors' = <<>>
                 ELSE pc' = StepAfter("r1") /\ errors' = <<M_noVanity>>
            /\ UNCHANGED <<vres, resp>>
     ELSE /\ pc' = "browser"
          /\ UNCHANGED <<errors, vres, resp>>
  /\ UNCHANGED <<calls, orgId, am, fb, jobs, step, first429, after429, got403, after403>>
  /\ UNCHANGED <<normVars, identVars, reqVars, empVars, gqlVars, lateVars>>

\* bookkeeping of the first answer HTTP 403 of a request: the function that
\* got it, and whether that function went on to a further call
Noted403(fn, o) ==
  IF got403 = {} /\ o = HttpError(403) THEN {fn} ELSE got403
NotedAfter403(fn) == IF fn \in got403 THEN after403 \cup {fn} ELSE after403

\* resolveOrgId step 1: the vanity-name lookup
ResolveVanity ==
  /\ pc = "r1"
  /\ \E o \in JsonOutcomes :
       LET u == VanityLookupUrl(extractVanity(reqUrl).str)
           id == IF o.k = "ok" /\ JsonTruthy(o.body)
                 THEN findFirstOrgIdInHtml(UrnsOfJson(o.body)) ELSE Null
       IN /\ got403' = Noted403("resolveOrgId", o)
          /\ after403' = NotedAfter403("resolveOrgId")
          /\ calls' = Append(calls, Call("resolveOrgId", "vanityName", S_wwwLinkedin))
          /\ IF id # Null
               THEN /\ orgId' = id
                    /\ pc' = AfterResolve
                    /\ step' = 1
                    /\ errors' = <<>>
             ELSE /\ errors' = Append(errors,
                                 IF o.k # "ok" THEN M_apiPrefix \o FetchErrorMessage(o, u)
                                 ELSE IF JsonTruthy(o.body) THEN M_apiNoId
                                 ELSE M_apiEmpty)
                  /\ pc' = StepAfter("r1")
                  /\ UNCHANGED <<orgId, step>>
  /\ UNCHANGED <<am, fb, jobs, first429, after429, vres, resp>>
  /\ UNCHANGED <<tried, normVars, identVars, reqVars, empVars, gqlVars, lateVars>>

\* resolveOrgId step 2: the company page
ResolvePage ==
  /\ pc = "r2"
  /\ \E o \in TextOutcomes :
       LET u == NormalizedUrl(reqUrl)
           id == IF o.k = "ok" THEN findFirstOrgIdInHtml(o.body.urns) ELSE Null
       IN /\ got403' = Noted403("resolveOrgId", o)
          /\ after403' = NotedAfter403("resolveOrgId")
          /\ calls' = Append(calls, Call("resolveOrgId", "page", FetchHost(u)))
          /\ IF id # Null
               THEN /\ orgId' = id
                    /\ pc' = AfterResolve
                    /\ step' = 1
                    /\ errors' = <<>>
             ELSE /\ errors' = Append(errors,
                                 IF o.k # "ok" THEN M_htmlPrefix \o FetchErrorMessage(o, u)
                                 ELSE M_htmlNoId)
                  /\ pc' = StepAfter("r2")
                  /\ UNCHANGED <<orgId, step>>
  /\ UNCHANGED <<am, fb, jobs, first429, after429, vres, resp>>
  /\ UNCHANGED <<tried, normVars, identVars, reqVars, empVars, gqlVars, lateVars>>

\* the message resolveOrgId throws when the three steps failed
ResolveFailureFirstOnly(errs) == M_resolveFailed \o errs[1]
ResolveFailure(errs) == M_resolveFailed \o JoinMessages(errs)

\* voyagerScrape: catch (err), the test for rate limiting
LooksRateLimitedWordsOnly(message) == Includes(message, S_rateLimit)
LooksRateLimited(message) ==
  Includes(message, S_429) \/ Includes(message, S_rateLimit)

\* resolveOrgId step 3: the about page; when it fails too resolveOrgId
\* throws and voyagerScrape's catch answers or rethrows
ResolveAbout ==
  /\ pc = "r3"
  /\ \E o \in TextOutcomes :
       LET u == AboutUrl(reqUrl)
           id == IF o.k = "ok" THEN findFirstOrgIdInHtml(o.body.urns) ELSE Null
           errs == Append(errors,
                     IF o.k # "ok" THEN M_aboutPrefix \o FetchErrorMessage(o, u)
                     ELSE M_aboutNoId)
       IN /\ got403' = Noted403("resolveOrgId", o)
          /\ after403' = NotedAfter403("resolveOrgId")
          /\ calls' = Append(calls, Call("resolveOrgId", "about", FetchHost(u)))
          /\ IF id # Null
               THEN /\ orgId' = id
                    /\ pc' = AfterResolve
                    /\ step' = 1
                    /\ errors' = <<>>
                    /\ UNCHANGED vres
             ELSE /\ errors' = errs
                  /\ UNCHANGED <<orgId, step>>
                  /\ IF LooksRateLimited(ResolveFailure(errs))
                       THEN vres' = Returned(RateLimitedResult) /\ pc' = "vdone"
                       ELSE vres' = Thrown(ResolveFailure(errs)) /\ pc' = "fallback"
  /\ UNCHANGED <<am, fb, jobs, first429, after429, resp>>
  /\ UNCHANGED <<tried, normVars, identVars, reqVars, empVars, gqlVars, lateVars>>

\* the keys of voyagerAssociatedMembers' API patterns, in pattern order
AssocApiKeys ==
  <<K_total, K_totalResults, K_count, K_numResults, K_associatedMemberCount,
    K_staffCount, K_employeeCount, K_memberCount, K_totalCount, K_peopleCount>>
InsightsKeys == <<K_staffCount, K_employeeCount, K_memberCount>>

\* the first pattern, in order, whose first match is a count above 100
AssocApiCount(json, keys) ==
  FirstOver100([i \in 1..Len(keys) |-> FirstNumberUnder(json, keys[i])])

\* the first captured text, in pattern order, whose number is above 100
RECURSIVE AssocHtmlCount(_)
AssocHtmlCount(captures) ==
  IF captures = <<>> THEN Null
  ELSE LET num == JsNumber(RemoveAll(Head(captures), {","}))
       IN IF Over100(num) THEN num ELSE AssocHtmlCount(Tail(captures))

AssocScriptCount(counts) ==
  FirstOver100([i \in 1..Len(counts) |-> Num(counts[i])])

\* voyagerAssociatedMembers issues up to 4 + 3 + 3 + 1 calls
AssocEndpoints == 11
\* whether call number n of voyagerAssociatedMembers is a fetchJson
AssocIsJson(n) == n \in 1..4 \/ n = AssocEndpoints

\* what call number n of voyagerAssociatedMembers finds in its answer
AssocFound(n, o) ==
  IF o.k # "ok" THEN Null
  ELSE IF n \in 1..4
    THEN IF JsonTruthy(o.body) THEN AssocApiCount(o.body, AssocApiKeys) ELSE Null
  ELSE IF n \in 5..7
    THEN IF o.body.empty THEN Null ELSE AssocHtmlCount(o.body.members)
  ELSE IF n \in 8..10
    THEN IF o.body.empty THEN Null ELSE AssocScriptCount(o.body.scripts)
  ELSE IF JsonTruthy(o.body) THEN AssocApiCount(o.body, InsightsKeys) ELSE Null

\* bookkeeping of the answers HTTP 429: the functions whose first call got
\* one, and those of them that went on to a further call
Noted429(fn, n, o) ==
  IF n = 1 /\ o = HttpError(429) THEN first429 \cup {fn} ELSE first429
NotedAfter429(fn, n) ==
  IF n > 1 /\ fn \in first429 THEN after429 \cup {fn} ELSE after429

\* whether a metric function is over after call number n of last, answered
\* o: it returns what the call found, or null after its last candidate; the
\* error of a failed call is caught inside the function
StopsAfterErrorEscapes(n, last, found, o) ==
  found # Null \/ n = last \/ o.k # "ok"
StopsAfter(n, last, found, o) == found # Null \/ n = last

\* voyagerAssociatedMembers: one endpoint of its four strategies
AssocCall ==
  /\ pc = "am"
  /\ \E o \in (IF AssocIsJson(step) THEN JsonOutcomes ELSE TextOutcomes) :
       LET found == AssocFound(step, o)
       IN /\ first429' = Noted429("voyagerAssociatedMembers", step, o)
          /\ after429' = NotedAfter429("voyagerAssociatedMembers", step)
          /\ got403' = Noted403("voyagerAssociatedMembers", o)
          /\ after403' = NotedAfter403("voyagerAssociatedMembers")
          /\ IF StopsAfter(step, AssocEndpoints, found, o)
               THEN am' = found /\ pc' = "fb" /\ step' = 1
             ELSE UNCHANGED <<am, pc>> /\ step' = step + 1
  /\ UNCHANGED <<calls, errors, orgId, fb, jobs, vres, resp>>
  /\ UNCHANGED <<tried, normVars, identVars, reqVars, empVars, gqlVars, lateVars>>

EmployeeEndpoints == 4
\* what call number n of voyagerEmployeesTotal finds in its answer
EmployeesFound(n, o) ==
  IF o.k # "ok" \/ ~JsonTruthy(o.body) THEN Null
  ELSE LET totals == deepFindTotals(o.body)
           range == StaffRangeStart(o.body)
       IN IF n = EmployeeEndpoints /\ range # Null THEN range
          ELSE IF totals # <<>> THEN Num(MaxOf(totals))
          ELSE Null

\* voyagerEmployeesTotal: one of its four endpoints
EmployeesCall ==
  /\ pc = "fb"
  /\ \E o \in JsonOutcomes :
       LET found == EmployeesFound(step, o)
       IN /\ first429' = Noted429("voyagerEmployeesTotal", step, o)
          /\ after429' = NotedAfter429("voyagerEmployeesTotal", step)
          /\ got403' = Noted403("voyagerEmployeesTotal", o)
          /\ after403' = NotedAfter403("voyagerEmployeesTotal")
          /\ IF StopsAfter(step, EmployeeEndpoints, found, o)
               THEN fb' = found /\ pc' = "jobs" /\ step' = 1
             ELSE UNCHANGED <<fb, pc>> /\ step' = step + 1
  /\ UNCHANGED <<calls, errors, orgId, am, jobs, vres, resp>>
  /\ UNCHANGED <<tried, normVars, identVars, reqVars, empVars, gqlVars, lateVars>>

JobEndpoints == 3
\* what call number n of voyagerJobsTotal finds in its answer
JobsFound(n, o) ==
  IF o.k # "ok" THEN Null
  ELSE IF n < JobEndpoints
    THEN IF JsonTruthy(o.body) /\ deepFindTotals(o.body) # <<>>
         THEN Num(MaxOf(deepFindTotals(o.body))) ELSE Null
  ELSE IF o.body.empty \/ o.body.results = Null THEN Null
  ELSE LET num == JsNumber(RemoveAll(o.body.results.str, {","}))
       IN IF num # NaN THEN num ELSE Null

\* voyagerJobsTotal: one of the two search endpoints or the public jobs page;
\* after the last one voyagerScrape builds its result
JobsCall ==
  /\ pc = "jobs"
  /\ \E o \in (IF step < JobEndpoints THEN JsonOutcomes ELSE TextOutcomes) :
       LET found == JobsFound(step, o)
           finished == StopsAfter(step, JobEndpoints, found, o)
       IN /\ first429' = Noted429("voyagerJobsTotal", step, o)
          /\ after429' = NotedAfter429("voyagerJobsTotal", step)
          /\ got403' = Noted403("voyagerJobsTotal", o)
          /\ after403' = NotedAfter403("voyagerJobsTotal")
          /\ IF finished
               THEN /\ jobs' = found
                    /\ vres' = Returned(ScrapeResult(orgId, am, fb, found))
                    /\ pc' = "vdone"
                    /\ step' = 0
             ELSE UNCHANGED <<jobs, vres, pc>> /\ step' = step + 1
  /\ UNCHANGED <<calls, errors, orgId, am, fb, resp>>
  /\ UNCHANGED <<tried, normVars, identVars, reqVars, empVars, gqlVars, lateVars>>

\* GET /scrape: voyagerScrape returned, the response is sent
RespondVoyager ==
  /\ pc = "vdone"
  /\ resp' = [status |-> 200, method |-> "voyager", result |-> vres.returned]
  /\ pc' = "done"
  /\ UNCHANGED <<calls, errors, orgId, am, fb, jobs, step, first429, after429, vres,
                 got403, after403>>
  /\ UNCHANGED <<tried, normVars, identVars, reqVars, empVars, gqlVars, lateVars>>

\* what a rendered-browser scrape of an accepted reference comes to
BrowserResults ==
  {[jobsPostedCount |-> j, employeeCount |-> e.c, employeeCountRange |-> e.r] :
     j \in {Null, Num(7)},
     e \in {[c |-> Null, r |-> Null], [c |-> Num(1234), r |-> Null],
            [c |-> Null, r |-> Str(<<"5","1","-","2","0","0">>)]}}
M_authRequired == <<"LinkedIn authentication required or challenge detected">>
BrowserOutcomes == {Returned(r) : r \in BrowserResults} \cup {Thrown(M_authRequired)}

\* the method field of a response built from scrapeCompany's result
MethodAlwaysBrowser(p) == "browser"
BrowserMethod(p) == IF p = "fallback" THEN "browser-fallback" ELSE "browser"

\* GET /scrape: scrapeCompany, called directly or as the fallback of a
\* voyagerScrape that threw
BrowserScrape ==
  /\ pc \in {"browser", "fallback"}
  /\ tried' = Append(tried, "browser")
  /\ LET companyUrl == ensureCompanyUrl(Trim(reqUrl))
         method == BrowserMethod(pc)
     IN IF IsThrown(companyUrl)
          THEN /\ resp' = [status |-> 500, error |-> companyUrl.thrown]
               /\ UNCHANGED calls
        ELSE \E b \in BrowserOutcomes :
               /\ calls' = Append(calls, Call("scrapeCompany", "browser",
                                              FetchHost(companyUrl.str)))
               /\ resp' = IF IsThrown(b)
                          THEN [status |-> 500, error |-> b.thrown]
                          ELSE [status |-> 200, method |-> method,
                                result |-> b.returned,
                                voyagerError |-> IF pc = "fallback" THEN vres.thrown
                                                 ELSE Null]
  /\ pc' = "done"
  /\ UNCHANGED <<errors, orgId, am, fb, jobs, step, first429, after429, vres,
                 got403, after403>>
  /\ UNCHANGED <<normVars, identVars, reqVars, empVars, gqlVars, lateVars>>

Init ==
  /\ reqUrl \in VoyagerRefs
  /\ hasLiAt \in BOOLEAN
  /\ qVoyager \in {"", "true", "false"}
  /\ pc = "start"
  /\ calls = <<>>
  /\ errors = <<>>
  /\ orgId = Null /\ am = Null /\ fb = Null /\ jobs = Null
  /\ step = 0
  /\ first429 = {}
  /\ after429 = {}
  /\ vres = Pending
  /\ resp = Pending
  /\ tried = <<>>
  /\ got403 = {}
  /\ after403 = {}
  /\ NormIdle
  /\ IdentIdle
  /\ EmpIdle
  /\ GqlIdle
  /\ LateIdle

Next ==
  \/ Receive
  \/ ResolveVanity
  \/ ResolvePage
  \/ ResolveAbout
  \/ AssocCall
  \/ EmployeesCall
  \/ JobsCall
  \/ RespondVoyager
  \/ BrowserScrape

Spec == Init /\ [][Next]_vars

(***************************************************************************)
(* getEmployeeCount of src/src/scrape.js on a rendered browser.  The site  *)
(* is fixed when the call starts: what the people page, the about page,    *)
(* the company page and the people search would show.  One action is one   *)
(* page opened, read and closed.                                           *)
(***************************************************************************)
T_500 == <<"5","0","0">>
T_0 == <<"0">>
T_51 == <<"5","1">>
T_10000plus == <<"1","0",",","0","0","0","+">>
T_1200 == <<"1",",","2","0","0">>
T_range == <<"2","0","1","-","5","0","0">>
T_rangePlus == <<"1","0",",","0","0","1","+">>

\* the people page: whether safeGoto ends on /login or /challenge, the texts
\* the associated-members patterns capture (in pattern order), the text the
\* link patterns capture and the texts the fallback patterns capture
PeoplePage(assoc, link, fallback) ==
  [blocked |-> FALSE, assoc |-> assoc, link |-> link, fallback |-> fallback]
PP_blocked == [blocked |-> TRUE, assoc |-> <<>>, link |-> Null, fallback |-> <<>>]
PeoplePages ==
  {PP_blocked,
   PeoplePage(<<>>, Null, <<>>),
   PeoplePage(<<T_500>>, Null, <<>>),
   PeoplePage(<<T_0>>, Str(T_10000plus), <<>>),
   PeoplePage(<<>>, Str(T_25k), <<T_51>>),
   PeoplePage(<<>>, Str(T_0), <<T_abc, T_51>>)}

\* the about page: the size range its text shows
AboutPages ==
  {[blocked |-> TRUE, range |-> Null],
   [blocked |-> FALSE, range |-> Null],
   [blocked |-> FALSE, range |-> Str(T_range)],
   [blocked |-> FALSE, range |-> Str(T_rangePlus)]}

\* the company page: the URN occurrences of its HTML
HomePages ==
  {[blocked |-> TRUE, urns |-> <<>>],
   [blocked |-> FALSE, urns |-> <<>>],
   [blocked |-> FALSE,
    urns |-> <<Urn("fs_miniCompany", "77"), Urn("organization", "1035")>>]}

\* the people search: the largest total of the JSON responses it loads, the
\* text its headers capture and the text its body captures
SearchPage(total, header, body) ==
  [blocked |-> FALSE, foundTotal |-> total, header |-> header, body |-> body]
SearchPages ==
  {[blocked |-> TRUE, foundTotal |-> Null, header |-> Null, body |-> Null],
   SearchPage(Null, Null, Null),
   SearchPage(Num(800), Null, Null),
   SearchPage(Null, Str(T_1200), Null),
   SearchPage(Null, Str(T_0), Str(T_51))}

Sites ==
  [people : PeoplePages, about : AboutPages, home : HomePages, search : SearchPages]

CountResult(count, range) == [employeeCount |-> count, employeeCountRange |-> range]

\* extractCountByPatterns: the first capture, in pattern order, that parses
RECURSIVE extractCountByPatterns(_)
extractCountByPatterns(captures) ==
  IF captures = <<>> THEN Null
  ELSE IF parseHumanNumber(Head(captures)) # Null THEN parseHumanNumber(Head(captures))
  ELSE extractCountByPatterns(Tail(captures))

\* getEmployeeCount on the people page: the result it returns from there,
\* Null when it goes on to the about page
PeopleResult(p) ==
  LET associatedMembers == extractCountByPatterns(p.assoc)
      numeric == IF p.link = Null THEN Null ELSE parseHumanNumber(p.link.str)
      range == IF p.link # Null /\ EndsWith(p.link.str, <<"+">>) THEN p.link ELSE Null
      employees == extractCountByPatterns(p.fallback)
  IN IF Truthy(associatedMembers) THEN CountResult(associatedMembers, Null)
     ELSE IF Truthy(numeric) THEN CountResult(numeric, range)
     ELSE IF Truthy(employees) THEN CountResult(employees, Null)
     ELSE Null

\* getCompanyId(...).catch(() => null)
getCompanyId(h) ==
  IF h.blocked THEN Null ELSE findFirstOrgIdInHtml(h.urns)

\* getEmployeeCountViaSearch(...).catch(() => null)
getEmployeeCountViaSearch(s) ==
  IF s.blocked THEN Null
  ELSE IF Truthy(s.foundTotal) THEN CountResult(s.foundTotal, Null)
  ELSE IF s.header # Null /\ Truthy(parseHumanNumber(s.header.str))
    THEN CountResult(parseHumanNumber(s.header.str), Null)
  ELSE IF s.body # Null /\ Truthy(parseHumanNumber(s.body.str))
    THEN CountResult(parseHumanNumber(s.body.str), Null)
  ELSE CountResult(Null, Null)

\* Promise.all([getJobsCount, getEmployeeCount]) has settled: one of the two
\* rejected, or both are fulfilled.  The continuation of scrapeCompany is then
\* due and runs before any further page event.
PromiseAllSettled ==
  /\ jpc # "idle"
  /\ \/ IsThrown(jres)
     \/ IsThrown(eres)
     \/ (IsReturned(jres) /\ IsReturned(eres))
SettleDue == sres = Pending /\ PromiseAllSettled

\* getEmployeeCount: the page opened after one that settled nothing
PageAfterSkipsAbout(p) ==
  CASE p = "people" -> "home" [] p = "about" -> "home" [] p = "home" -> "search"
PageAfter(p) ==
  CASE p = "people" -> "about" [] p = "about" -> "home" [] p = "home" -> "search"

OpenPeople ==
  /\ epc = "people" /\ ~SettleDue
  /\ visited' = Append(visited, "people")
  /\ IF site.people.blocked
       THEN eres' = Thrown(M_authRequired) /\ epc' = "done"
     ELSE IF PeopleResult(site.people) # Null
       THEN eres' = Returned(PeopleResult(site.people)) /\ epc' = "done"
     ELSE eres' = eres /\ epc' = PageAfter("people")
  /\ UNCHANGED <<site, normVars, identVars, reqVars, voyVars, gqlVars, lateVars>>

OpenAbout ==
  /\ epc = "about" /\ ~SettleDue
  /\ visited' = Append(visited, "about")
  /\ IF site.about.blocked
       THEN eres' = Thrown(M_authRequired) /\ epc' = "done"
     ELSE IF Truthy(site.about.range)
       THEN eres' = Returned(CountResult(Null, site.about.range)) /\ epc' = "done"
     ELSE eres' = eres /\ epc' = PageAfter("about")
  /\ UNCHANGED <<site, normVars, identVars, reqVars, voyVars, gqlVars, lateVars>>

OpenHome ==
  /\ epc = "home" /\ ~SettleDue
  /\ visited' = Append(visited, "home")
  /\ IF getCompanyId(site.home) # Null
       THEN eres' = eres /\ epc' = PageAfter("home")
     ELSE eres' = Returned(CountResult(Null, Null)) /\ epc' = "done"
  /\ UNCHANGED <<site, normVars, identVars, reqVars, voyVars, gqlVars, lateVars>>

OpenSearch ==
  /\ epc = "search" /\ ~SettleDue
  /\ visited' = Append(visited, "search")
  /\ eres' = IF getEmployeeCountViaSearch(site.search) # Null
             THEN Returned(getEmployeeCountViaSearch(site.search))
             ELSE Returned(CountResult(Null, Null))
  /\ epc' = "done"
  /\ UNCHANGED <<site, normVars, identVars, reqVars, voyVars, gqlVars, lateVars>>

EmpInit ==
  /\ site \in Sites
  /\ epc = "people"
  /\ visited = <<>>
  /\ eres = Pending
  /\ NormIdle
  /\ IdentIdle
  /\ ScrapeIdle
  /\ GqlIdle
  /\ LateIdle

EmpNext == OpenPeople \/ OpenAbout \/ OpenHome \/ OpenSearch

SpecScrape == EmpInit /\ [][EmpNext]_vars

(***************************************************************************)
(* GraphQLScraper.tryMultipleQueries over LinkedInGraphQLClient.  How the  *)
(* endpoint answers each of the five queries is fixed when the call        *)
(* starts.  One action is one of the four numbered queries.                *)
(***************************************************************************)
GqlFail(m) == [ok |-> FALSE, message |-> m]
GqlData(d) == [ok |-> TRUE, data |-> d]

M_gqlHttp == <<"GraphQL request failed: ", "4","0","3", " Forbidden - ">>
M_gqlErrors == <<"GraphQL errors: [{\"message\":\"Unknown field\"}]">>
M_noOrganization == <<"No organization data returned">>

S_Acme == <<"A","c","m","e">>
S_orgUrn == <<"urn:li:organization:", "1","0","3","5">>

\* the organization of GetCompanyInfo
Org(name, staffCount, staffCountRange) ==
  [name |-> name, staffCount |-> staffCount, staffCountRange |-> staffCountRange]
BasicAnswers ==
  {GqlFail(M_gqlHttp), GqlFail(M_gqlErrors),
   GqlData(Null),
   GqlData(Org(Str(S_Acme), Num(350), Null)),
   GqlData(Org(Str(S_Acme), Num(350), [start |-> 201, end |-> 500])),
   GqlData(Org(Str(S_Acme), Null, [start |-> 201, end |-> 500]))}
\* the entityUrn of GetOrgUrn
UrnAnswers == {GqlFail(M_gqlHttp), GqlData(Null), GqlData(Str(S_orgUrn))}
\* headcount.total of GetEmployeeInsights and totalResultCount of GetPeopleCount
InsightAnswers == {GqlFail(M_gqlErrors), GqlData(Null), GqlData(Num(900))}
PeopleAnswers == {GqlFail(M_gqlHttp), GqlData(Null), GqlData(Num(1200))}
\* totalResultCount of GetJobPostings, Null when jobSearch holds none
JobAnswers == {GqlFail(M_gqlHttp), GqlData(Null), GqlData(Num(0)), GqlData(Num(12))}

Apis ==
  [basic : BasicAnswers, urn : UrnAnswers, insights : InsightAnswers,
   people : PeopleAnswers, jobs : JobAnswers]

\* tryMultipleQueries: const results = {...}
InitialResults ==
  [companyName |-> Null, employeeCount |-> Null, employeeCountRange |-> Null,
   associatedMembers |-> Null, jobsPostedCount |-> Null, dataSource |-> "graphql",
   orgUrn |-> Null, queryResults |-> <<>>]

\* Object.assign(results, patch)
Assign(target, patch) ==
  [f \in DOMAIN target |-> IF f \in DOMAIN patch THEN patch[f] ELSE target[f]]

Succeeded(query) == [query |-> query, success |-> TRUE, error |-> Null]
Failed(query, message) == [query |-> query, success |-> FALSE, error |-> Str(message)]
Push(r, entry) == [r EXCEPT !.queryResults = Append(@, entry)]

\* executeQuery threw: the query and the message of its error
Failure(query, answer) == [query |-> query, message |-> answer.message]

\* getBasicCompanyInfo: what it returns or throws
getBasicCompanyInfo(answer) ==
  IF ~answer.ok THEN Thrown(answer.message)
  ELSE IF answer.data = Null THEN Thrown(M_noOrganization)
  ELSE Returned(
         [companyName |-> answer.data.name,
          employeeCount |-> answer.data.staffCount,
          employeeCountRange |->
            IF answer.data.staffCountRange # Null
            THEN Str(NatToChars(answer.data.staffCountRange.start) \o <<"-">>
                       \o NatToChars(answer.data.staffCountRange.end))
            ELSE Null])

\* getOrganizationUrn: the URN, null when the query failed or held none
getOrganizationUrn(answer) ==
  IF ~answer.ok THEN Null ELSE answer.data

\* getEmployeeInsights: the patch it returns; it returns, never throws
getEmployeeInsights(insights, people) ==
  IF insights.ok /\ Truthy(insights.data)
    THEN [associatedMembers |-> insights.data, dataSource |-> "graphql_insights"]
  ELSE IF people.ok /\ Truthy(people.data)
    THEN [associatedMembers |-> people.data, dataSource |-> "graphql_people_search"]
  ELSE [none |-> TRUE]

\* the executeQuery failures inside getEmployeeInsights
InsightFailures(insights, people) ==
  (IF ~insights.ok THEN {Failure("employeeInsights", insights)} ELSE {})
    \cup (IF ~(insights.ok /\ Truthy(insights.data)) /\ ~people.ok
          THEN {Failure("employeeInsights", people)} ELSE {})

\* getJobPostings: the patch it returns; it returns, never throws
getJobPostings(answer) ==
  IF answer.ok /\ answer.data # Null THEN [jobsPostedCount |-> answer.data]
  ELSE [none |-> TRUE]

\* where tryMultipleQueries goes after Query 1: its catch records the
\* failure and the function goes on to the URN lookup
AfterBasicStopsOnFailure(companyInfo) == IF IsThrown(companyInfo) THEN "done" ELSE "urn"
AfterBasic(companyInfo) == "urn"

\* Query 1: basic company information
QueryBasic ==
  /\ gpc = "basic"
  /\ LET companyInfo == getBasicCompanyInfo(api.basic)
     IN /\ results' =
             IF IsThrown(companyInfo)
             THEN Push(results, Failed("basicCompanyInfo", companyInfo.thrown))
             ELSE Assign(Push(results, Succeeded("basicCompanyInfo")),
                         companyInfo.returned)
        /\ failed' = IF ~api.basic.ok
                     THEN failed \cup {Failure("basicCompanyInfo", api.basic)}
                     ELSE failed
  /\ gpc' = AfterBasic(getBasicCompanyInfo(api.basic))
  /\ UNCHANGED <<api, normVars, identVars, reqVars, voyVars, empVars, lateVars>>

\* Query 2: the organization URN
QueryOrgUrn ==
  /\ gpc = "urn"
  /\ LET orgUrn == getOrganizationUrn(api.urn)
     IN /\ results' = IF Truthy(orgUrn) THEN [results EXCEPT !.orgUrn = orgUrn]
                      ELSE results
        /\ gpc' = IF Truthy(orgUrn) THEN "insights" ELSE "done"
  /\ failed' = IF ~api.urn.ok THEN failed \cup {Failure("getOrgUrn", api.urn)}
               ELSE failed
  /\ UNCHANGED <<api, normVars, identVars, reqVars, voyVars, empVars, lateVars>>

\* Query 3: employee insights
QueryInsights ==
  /\ gpc = "insights"
  /\ results' = Assign(Push(results, Succeeded("employeeInsights")),
                       getEmployeeInsights(api.insights, api.people))
  /\ failed' = failed \cup InsightFailures(api.insights, api.people)
  /\ gpc' = "jobs"
  /\ UNCHANGED <<api, normVars, identVars, reqVars, voyVars, empVars, lateVars>>

\* Query 4: job postings
QueryJobs ==
  /\ gpc = "jobs"
  /\ results' = Assign(Push(results, Succeeded("jobPostings")),
                       getJobPostings(api.jobs))
  /\ failed' = IF ~api.jobs.ok THEN failed \cup {Failure("jobPostings", api.jobs)}
               ELSE failed
  /\ gpc' = "done"
  /\ UNCHANGED <<api, normVars, identVars, reqVars, voyVars, empVars, lateVars>>

GqlInit ==
  /\ api \in Apis
  /\ gpc = "basic"
  /\ results = InitialResults
  /\ failed = {}
  /\ NormIdle
  /\ IdentIdle
  /\ ScrapeIdle
  /\ EmpIdle
  /\ LateIdle

GqlNext == QueryBasic \/ QueryOrgUrn \/ QueryInsights \/ QueryJobs

SpecGraphQL == GqlInit /\ [][GqlNext]_vars

(***************************************************************************)
(* Claims about the strategies and the GET /scrape handler                 *)
(***************************************************************************)
ExactExcludesRange(r) == r.employeeCount # Null => r.employeeCountRange = Null

\* C1: every result a strategy produces (voyagerScrape, getEmployeeCount,
\* tryMultipleQueries with getBasicCompanyInfo merged) has a null
\* employeeCountRange whenever its employeeCount is non-null.
C1_CountExcludesRange ==
  /\ (IsReturned(vres) => ExactExcludesRange(vres.returned))
  /\ (IsReturned(eres) => ExactExcludesRange(eres.returned))
  /\ (gpc = "done" => ExactExcludesRange(results))

\* the lookups resolveOrgId has issued so far, in order
ResolveSteps ==
  LET rc == SelectSeq(calls, LAMBDA c : c.fn = "resolveOrgId")
  IN [i \in 1..Len(rc) |-> rc[i].ep]
AllLookups == <<"vanityName", "page", "about">>
AboutSucceeded ==
  orgId # Null /\ ResolveSteps # <<>> /\ ResolveSteps[Len(ResolveSteps)] = "about"

AllStepsFailed == orgId = Null /\ vres # Pending /\ vres # Thrown(M_noLiAt)

\* C4: when the three lookups all failed, resolveOrgId throws one error whose
\* message holds exactly one reason per step, in step order (vanity lookup,
\* page scan, about-page scan), joined by "; ", however each step failed.
C4_AllReasonsInOrder ==
  AllStepsFailed =>
    /\ Len(errors) = 3
    /\ StartsWith(errors[1], M_apiPrefix)
    /\ StartsWith(errors[2], M_htmlPrefix)
    /\ StartsWith(errors[3], M_aboutPrefix)
    /\ LET message == M_resolveFailed \o errors[1] \o <<"; ">> \o errors[2]
                        \o <<"; ">> \o errors[3]
       IN \/ vres = Thrown(message)
          \/ (LooksRateLimited(message) /\ vres = Returned(RateLimitedResult))

C4_Witness ==
  /\ IsThrown(vres)
  /\ Len(errors) = 3
  /\ errors[1] = M_noVanity
  /\ errors[3] = M_aboutNoId
  /\ pc = "done"

\* what the site offers getEmployeeCount: the figure of the people page and
\* the total of the people search
ExactFigure == IF site.people.blocked THEN Null ELSE PeopleResult(site.people)
SearchTotal ==
  IF getCompanyId(site.home) # Null /\ getEmployeeCountViaSearch(site.search) # Null
  THEN getEmployeeCountViaSearch(site.search).employeeCount
  ELSE Null
RangeOnly(r) == r.employeeCount = Null /\ r.employeeCountRange # Null
MergeExample ==
  (/\ ~site.people.blocked
   /\ site.people.assoc = <<T_500>>
   /\ site.about.range = Str(T_range)
   /\ IsReturned(eres)) => eres.returned = CountResult(Num(500), Null)
\* the semi-structured half of the priority: voyagerScrape reports
\* associatedMembers when it has one and the search-derived fallback otherwise
VoyagerPriority ==
  (IsReturned(vres) /\ ~vres.returned.rateLimited) =>
    vres.returned.employeeCount = (IF am # Null THEN am ELSE fb)

\* C5 as stated: the employee count follows the priority exact figure >
\* search-derived total > range-only estimate, so a range-only estimate is
\* reported only when neither an exact figure nor a search-derived total is
\* available; an exact 500 with a range "201-500" gives 500 and no range.
C5_SearchBeforeRange ==
  /\ (IsReturned(eres) /\ RangeOnly(eres.returned) =>
        ExactFigure = Null /\ SearchTotal = Null)
  /\ MergeExample

\* C5, amended: getEmployeeCount follows the priority people-page figure >
\* about-page range > people-search total: a figure of the people page is
\* returned at once, else a range of the about page is returned without the
\* search being consulted, else the search total (or nothing) is returned;
\* an exact 500 with a range "201-500" gives 500 and no range.
C5_RangeBeforeSearch ==
  /\ (IsReturned(eres) =>
        /\ (ExactFigure # Null =>
              eres.returned = ExactFigure /\ visited = <<"people">>)
        /\ (ExactFigure = Null /\ Truthy(site.about.range) =>
              /\ eres.returned = CountResult(Null, site.about.range)
              /\ visited = <<"people", "about">>)
        /\ (ExactFigure = Null /\ ~Truthy(site.about.range) =>
              /\ eres.returned = CountResult(SearchTotal, Null)
              /\ StartsWith(visited, <<"people", "about", "home">>)))
  /\ MergeExample

C5_Witness ==
  /\ IsReturned(eres)
  /\ eres.returned = CountResult(Null, Str(T_range))
  /\ SearchTotal = Num(800)
  /\ epc = "done"

\* C6: when the first call of a metric function is answered HTTP 429, the
\* function issues none of its remaining calls and the result carries
\* dataSource "rate_limited".
C6_RateLimitShortCircuit ==
  /\ after429 = {}
  /\ (first429 # {} /\ IsReturned(vres) =>
        vres.returned.dataSource = "rate_limited")

\* C7: every structured query that failed (basic info, organization-URN
\* lookup, employee insights, job postings) has an entry in queryResults
\* with success false and the message of its error, so that a run in which
\* every query fails leaves at least one failed entry.
C7_FailuresLogged ==
  gpc = "done" =>
    /\ \A f \in failed :
         \E i \in 1..Len(results.queryResults) :
           results.queryResults[i] = Failed(f.query, f.message)
    /\ ((\A q \in DOMAIN api : ~api[q].ok) =>
          \E i \in 1..Len(results.queryResults) :
            ~results.queryResults[i].success)

\* C10: for a reference whose host is outside linkedin.com and its
\* subdomains no request is issued on any path and the request is not
\* answered with a result.
C10_NoRequestForForeignHost ==
  NamesForeignHost(reqUrl) =>
    /\ calls = <<>>
    /\ (resp # Pending => resp.status # 200)

\* resolveOrgId threw: its errors array holds one message per step
ResolveFailed == Len(errors) = 3
ResolveMessage ==
  M_resolveFailed \o errors[1] \o <<"; ">> \o errors[2] \o <<"; ">> \o errors[3]
\* no metric function of voyagerScrape was entered
NoMetricRan == step = 0 /\ orgId = Null /\ am = Null /\ fb = Null /\ jobs = Null

\* C11 as stated: when identity resolution fails voyagerScrape throws the
\* aggregated cascade error, no metric function runs and no result object is
\* returned; and voyagerScrape throws only when identity resolution failed.
C11_FailureIsOnlyThrow ==
  /\ (ResolveFailed => vres = Thrown(ResolveMessage) /\ NoMetricRan)
  /\ (IsThrown(vres) => ResolveFailed)

\* C11, amended: when identity resolution fails no metric function runs and
\* voyagerScrape throws the aggregated cascade error, unless that message
\* holds "429" or "rate limit", in which case it returns the rate-limited
\* result object; voyagerScrape throws only when identity resolution failed
\* or, before any request, when the LI_AT cookie is missing.
C11_FailureThrowsUnlessThrottled ==
  /\ (ResolveFailed =>
        /\ NoMetricRan
        /\ IF Includes(ResolveMessage, S_429) \/ Includes(ResolveMessage, S_rateLimit)
           THEN vres = Returned(RateLimitedResult)
           ELSE vres = Thrown(ResolveMessage))
  /\ (IsThrown(vres) =>
        \/ ResolveFailed
        \/ (~hasLiAt /\ vres = Thrown(M_noLiAt) /\ ResolveSteps = <<>>))

C11_Witness ==
  /\ ResolveFailed
  /\ vres = Thrown(ResolveMessage)
  /\ ResolveSteps = AllLookups
  /\ pc = "fallback"

(***************************************************************************)
(* scrapeCompany of src/src/scrape.js: getJobsCount and getEmployeeCount   *)
(* are started together and awaited with Promise.all.  One action is one   *)
(* page opened, read and closed by one of the two; the continuation of the *)
(* await runs before any further page event once it is due.                *)
(***************************************************************************)
BrowserRefs == {<<>>, C_ms, S_https \o H_evil \o S_slashCompanySlash \o C_ms}
M_missingUrl == <<"Missing LinkedIn company URL">>

\* the jobs page: whether safeGoto ends on /login or /challenge, the texts
\* the phrase patterns capture and the text the prominent elements yield
JobsPage(phrases, prominent) ==
  [blocked |-> FALSE, phrases |-> phrases, prominent |-> prominent]
JobsPages ==
  {[blocked |-> TRUE, phrases |-> <<>>, prominent |-> Null],
   JobsPage(<<>>, Null),
   JobsPage(<<T_51>>, Null),
   JobsPage(<<T_0>>, Str(T_1200)),
   JobsPage(<<T_0>>, Str(T_0))}
\* the text after "Jobs" in the navigation link of the company page
NavTexts == {Null, Str(T_25k)}
\* the jobs search: the largest total of the JSON responses it loads, the
\* texts its result containers and its body capture, and its visible cards
JobSearchPage(total, dom, body, cards) ==
  [blocked |-> FALSE, foundTotal |-> total, dom |-> dom, body |-> body,
   cards |-> cards]
JobSearchPages ==
  {[blocked |-> TRUE, foundTotal |-> Null, dom |-> Null, body |-> Null, cards |-> 0],
   JobSearchPage(Null, Null, Null, 0),
   JobSearchPage(Num(12), Null, Null, 0),
   JobSearchPage(Null, Str(T_0), Str(T_0), 3)}
JobSites == [jobs : JobsPages, nav : NavTexts, search : JobSearchPages]

\* parseHumanNumber of a text that may be null
parseOrNull(t) == IF t = Null THEN Null ELSE parseHumanNumber(t.str)

\* getJobsCount on the jobs page: the count it returns from there, Null when
\* it goes on to the company page
JobsPageResult(p) ==
  LET phraseCount == extractCountByPatterns(p.phrases)
      fromProminentParsed == parseOrNull(p.prominent)
  IN IF Truthy(phraseCount) THEN phraseCount
     ELSE IF Truthy(fromProminentParsed) THEN fromProminentParsed
     ELSE Null

\* getJobsCountViaSearch(...).catch(() => null)
getJobsCountViaSearch(s) ==
  IF s.blocked THEN Null
  ELSE IF Truthy(s.foundTotal) THEN s.foundTotal
  ELSE IF Truthy(parseOrNull(s.dom)) THEN parseOrNull(s.dom)
  ELSE IF s.body # Null THEN parseOrNull(s.body)
  ELSE IF s.cards > 0 THEN Num(s.cards)
  ELSE Null

\* scrapeCompany: the result it returns
Merged(companyUrl, jobsPostedCount, employee) ==
  [companyUrl |-> companyUrl,
   jobsPostedCount |-> jobsPostedCount,
   employeeCount |-> employee.employeeCount,
   employeeCountRange |-> employee.employeeCountRange]

\* scrapeCompany up to await Promise.all: both functions are started
StartScrape ==
  /\ jpc = "idle" /\ sres = Pending
  /\ LET companyUrl == ensureCompanyUrl(Trim(urlOrSlug))
     IN IF Trim(urlOrSlug) = <<>>
          THEN sres' = Thrown(M_missingUrl) /\ UNCHANGED <<jpc, epc>>
        ELSE IF IsThrown(companyUrl)
          THEN sres' = Thrown(companyUrl.thrown) /\ UNCHANGED <<jpc, epc>>
        ELSE sres' = sres /\ jpc' = "jobs" /\ epc' = "people"
  /\ UNCHANGED <<urlOrSlug, jsite, jres, persisted, site, visited, eres>>
  /\ UNCHANGED <<normVars, identVars, reqVars, voyVars, gqlVars, afterBrw>>

\* getJobsCount 1): the jobs page
OpenJobsPage ==
  /\ jpc = "jobs" /\ ~SettleDue
  /\ IF jsite.jobs.blocked
       THEN jres' = Thrown(M_authRequired) /\ jpc' = "done"
     ELSE IF JobsPageResult(jsite.jobs) # Null
       THEN jres' = Returned(JobsPageResult(jsite.jobs)) /\ jpc' = "done"
     ELSE jres' = jres /\ jpc' = "root"
  /\ UNCHANGED <<urlOrSlug, jsite, sres, persisted, empVars>>
  /\ UNCHANGED <<normVars, identVars, reqVars, voyVars, gqlVars, afterBrw>>

\* getJobsCount 2): the navigation link of the company page
OpenCompanyRoot ==
  /\ jpc = "root" /\ ~SettleDue
  /\ IF site.home.blocked
       THEN jres' = Thrown(M_authRequired) /\ jpc' = "done"
     ELSE IF Truthy(parseOrNull(jsite.nav))
       THEN jres' = Returned(parseOrNull(jsite.nav)) /\ jpc' = "done"
     ELSE jres' = jres /\ jpc' = "home"
  /\ UNCHANGED <<urlOrSlug, jsite, sres, persisted, empVars>>
  /\ UNCHANGED <<normVars, identVars, reqVars, voyVars, gqlVars, afterBrw>>

\* getJobsCount 3): getCompanyId on the company page
OpenJobsHome ==
  /\ jpc = "home" /\ ~SettleDue
  /\ IF getCompanyId(site.home) # Null
       THEN jres' = jres /\ jpc' = "search"
     ELSE jres' = Returned(Null) /\ jpc' = "done"
  /\ UNCHANGED <<urlOrSlug, jsite, sres, persisted, empVars>>
  /\ UNCHANGED <<normVars, identVars, reqVars, voyVars, gqlVars, afterBrw>>

\* getJobsCount 3): the jobs search filtered by the company ID
OpenJobsSearch ==
  /\ jpc = "search" /\ ~SettleDue
  /\ jres' = IF Truthy(getJobsCountViaSearch(jsite.search))
             THEN Returned(getJobsCountViaSearch(jsite.search))
             ELSE Returned(Null)
  /\ jpc' = "done"
  /\ UNCHANGED <<urlOrSlug, jsite, sres, persisted, empVars>>
  /\ UNCHANGED <<normVars, identVars, reqVars, voyVars, gqlVars, afterBrw>>

\* scrapeCompany after await Promise.all: the merged result, or the error of
\* the function that rejected
ContinueScrape ==
  /\ SettleDue
  /\ IF IsThrown(jres) THEN sres' = Thrown(jres.thrown) /\ persisted' = persisted
     ELSE IF IsThrown(eres) THEN sres' = Thrown(eres.thrown) /\ persisted' = persisted
     ELSE /\ sres' = Returned(Merged(ensureCompanyUrl(Trim(urlOrSlug)).str,
                                     jres.returned, eres.returned))
          /\ persisted' = TRUE
  /\ UNCHANGED <<urlOrSlug, jsite, jpc, jres, empVars>>
  /\ UNCHANGED <<normVars, identVars, reqVars, voyVars, gqlVars, afterBrw>>

BrwInit ==
  /\ urlOrSlug \in BrowserRefs
  /\ jsite \in JobSites
  /\ site \in Sites
  /\ jpc = "idle" /\ epc = "idle"
  /\ jres = Pending /\ eres = Pending /\ sres = Pending
  /\ visited = <<>>
  /\ persisted = FALSE
  /\ NormIdle
  /\ IdentIdle
  /\ ScrapeIdle
  /\ GqlIdle
  /\ CtxIdle
  /\ TailIdle

BrwNext ==
  \/ StartScrape
  \/ OpenJobsPage
  \/ OpenCompanyRoot
  \/ OpenJobsHome
  \/ OpenJobsSearch
  \/ OpenPeople
  \/ OpenAbout
  \/ OpenHome
  \/ OpenSearch
  \/ ContinueScrape

SpecBrowser == BrwInit /\ [][BrwNext]_vars

\* C12: when a navigation ends on a login or challenge path scrapeCompany
\* still returns a result object: the metric whose function hit it is null
\* and the other metric is what its function extracted.
C12_AuthAbortsOnlyItsStep ==
  /\ (sres # Pending /\ jpc # "idle" => IsReturned(sres))
  /\ (IsReturned(sres) /\ IsThrown(jres) =>
        /\ sres.returned.jobsPostedCount = Null
        /\ IsReturned(eres)
        /\ sres.returned.employeeCount = eres.returned.employeeCount)
  /\ (IsReturned(sres) /\ IsThrown(eres) =>
        /\ sres.returned.employeeCount = Null
        /\ IsReturned(jres)
        /\ sres.returned.jobsPostedCount = jres.returned)

\* C13: scrapeCompany has an outcome (the merged result or an error) only
\* when getJobsCount and getEmployeeCount have both settled.
C13_OutcomeAfterBothSettled ==
  (sres # Pending /\ jpc # "idle") => (jres # Pending /\ eres # Pending)

\* the strategies in the documented priority order: the structured query
\* (GraphQL), the semi-structured endpoints (Voyager), the rendered pages
Priority == <<"graphql", "voyager", "browser">>
RECURSIVE IsSubsequence(_, _)
IsSubsequence(s, t) ==
  IF s = <<>> THEN TRUE
  ELSE IF t = <<>> THEN FALSE
  ELSE IF Head(s) = Head(t) THEN IsSubsequence(Tail(s), Tail(t))
  ELSE IsSubsequence(s, Tail(t))

MaxCalls == 3
Callers == 1..MaxCalls
M_launchFailed == <<"browserType.launchPersistentContext: Failed to launch">>
S_li_at == "li_at"

\* the promise launchPersistentContext(...).then(...) and where its chain is
NewPromise == [state |-> "pending", at |-> "launch"]

\* getPersistentContext: if (persistentContextPromise) return it
ReuseOnlySettled(p) == p # 0 /\ promises[p].state # "pending"
Reuse(p) == p # 0

\* the initialization chain: if (liAt) ... if (!hasCookie) addCookies
MustAddCookieAlways(liAt, existing) == liAt
MustAddCookie(liAt, existing) == liAt /\ S_li_at \notin existing

\* one call of getPersistentContext, up to the promise it returns
GetPersistentContext(c) ==
  /\ cstate[c] = "idle"
  /\ IF Reuse(persistentContextPromise)
       THEN /\ awaiting' = [awaiting EXCEPT ![c] = persistentContextPromise]
            /\ UNCHANGED <<persistentContextPromise, promises>>
     ELSE /\ promises' = Append(promises, NewPromise)
          /\ persistentContextPromise' = Len(promises) + 1
          /\ awaiting' = [awaiting EXCEPT ![c] = Len(promises) + 1]
  /\ cstate' = [cstate EXCEPT ![c] = "waiting"]
  /\ UNCHANGED <<profile, jar, added, cres>>
  /\ UNCHANGED <<normVars, identVars, reqVars, voyVars, empVars, gqlVars, brwVars, tailVars>>

\* chromium.launchPersistentContext settles
LaunchSettles(i) ==
  /\ promises[i].state = "pending" /\ promises[i].at = "launch"
  /\ \E launched \in BOOLEAN :
       promises' = [promises EXCEPT ![i] =
                      IF launched THEN [state |-> "pending", at |-> "script"]
                      ELSE [state |-> "rejected", at |-> "launch"]]
  /\ UNCHANGED <<persistentContextPromise, profile, jar, added, cstate, awaiting, cres>>
  /\ UNCHANGED <<normVars, identVars, reqVars, voyVars, empVars, gqlVars, brwVars, tailVars>>

\* await ctx.addInitScript(...)
AddInitScript(i) ==
  /\ promises[i].state = "pending" /\ promises[i].at = "script"
  /\ promises' = [promises EXCEPT ![i].at = "cookies"]
  /\ UNCHANGED <<persistentContextPromise, profile, jar, added, cstate, awaiting, cres>>
  /\ UNCHANGED <<normVars, identVars, reqVars, voyVars, empVars, gqlVars, brwVars, tailVars>>

\* const existing = await ctx.cookies(...); hasCookie
ReadCookies(i) ==
  /\ promises[i].state = "pending" /\ promises[i].at = "cookies"
  /\ promises' = [promises EXCEPT ![i].at =
                    IF MustAddCookie(hasLiAt, jar) THEN "add" ELSE "persist"]
  /\ UNCHANGED <<persistentContextPromise, profile, jar, added, cstate, awaiting, cres>>
  /\ UNCHANGED <<normVars, identVars, reqVars, voyVars, empVars, gqlVars, brwVars, tailVars>>

\* await ctx.addCookies([{ name: 'li_at', ... }])
AddCookies(i) ==
  /\ promises[i].state = "pending" /\ promises[i].at = "add"
  /\ jar' = jar \cup {S_li_at}
  /\ added' = added + 1
  /\ promises' = [promises EXCEPT ![i].at = "persist"]
  /\ UNCHANGED <<persistentContextPromise, profile, cstate, awaiting, cres>>
  /\ UNCHANGED <<normVars, identVars, reqVars, voyVars, empVars, gqlVars, brwVars, tailVars>>

\* await persistStorageState(ctx) (best effort); return ctx
ReturnContext(i) ==
  /\ promises[i].state = "pending" /\ promises[i].at = "persist"
  /\ promises' = [promises EXCEPT ![i] = [state |-> "fulfilled", at |-> "done"]]
  /\ UNCHANGED <<persistentContextPromise, profile, jar, added, cstate, awaiting, cres>>
  /\ UNCHANGED <<normVars, identVars, reqVars, voyVars, empVars, gqlVars, brwVars, tailVars>>

\* a caller's await of the promise it was handed resumes; the context a
\* promise fulfils with is named by the number of the launch that made it
Resume(c) ==
  /\ cstate[c] = "waiting"
  /\ promises[awaiting[c]].state # "pending"
  /\ cres' = [cres EXCEPT ![c] =
                IF promises[awaiting[c]].state = "fulfilled"
                THEN Returned(awaiting[c]) ELSE Thrown(M_launchFailed)]
  /\ cstate' = [cstate EXCEPT ![c] = "done"]
  /\ UNCHANGED <<persistentContextPromise, promises, profile, jar, added, awaiting>>
  /\ UNCHANGED <<normVars, identVars, reqVars, voyVars, empVars, gqlVars, brwVars, tailVars>>

CtxInit ==
  /\ persistentContextPromise = 0
  /\ promises = <<>>
  /\ profile \in {{}, {S_li_at}}
  /\ jar = profile
  /\ added = 0
  /\ cstate = [c \in Callers |-> "idle"]
  /\ awaiting = [c \in Callers |-> 0]
  /\ cres = [c \in Callers |-> Pending]
  /\ hasLiAt \in BOOLEAN
  /\ reqUrl = <<>> /\ qVoyager = ""
  /\ VoyIdle
  /\ NormIdle
  /\ IdentIdle
  /\ EmpIdle
  /\ GqlIdle
  /\ BrwIdle
  /\ TailIdle

CtxNext ==
  \/ \E c \in Callers : GetPersistentContext(c)
  \/ \E i \in 1..Len(promises) : LaunchSettles(i)
  \/ \E i \in 1..Len(promises) : AddInitScript(i)
  \/ \E i \in 1..Len(promises) : ReadCookies(i)
  \/ \E i \in 1..Len(promises) : AddCookies(i)
  \/ \E i \in 1..Len(promises) : ReturnContext(i)
  \/ \E c \in Callers : Resume(c)

SpecContext == CtxInit /\ [][CtxNext]_vars

\* C15: however many calls of getPersistentContext there are, concurrent or
\* successive, the context is launched at most once, every call is handed
\* the same promise and every call that resolves resolves to the same
\* context; li_at is added at most once, during that initialization, and
\* only when LI_AT is set and the context did not hold the cookie.
C15_SingleContext ==
  /\ Len(promises) <= 1
  /\ \A c \in Callers :
       /\ (cstate[c] # "idle" => awaiting[c] = 1)
       /\ (IsReturned(cres[c]) => cres[c].returned = 1)
  /\ added <= 1
  /\ (added = 1 => hasLiAt /\ S_li_at \notin profile)
  /\ (S_li_at \in jar => hasLiAt \/ S_li_at \in profile)
  /\ (promises # <<>> /\ promises[1].state = "fulfilled" /\ hasLiAt =>
        S_li_at \in jar)

C15_Witness ==
  /\ \A c \in Callers : cres[c] = Returned(1)
  /\ added = 1

\* a metric function ends only with the data a call found or after its last
\* candidate, and voyagerScrape then returns the result built from what the
\* three functions returned
MetricStep ==
  /\ (pc = "am" /\ pc' # "am" =>
        pc' = "fb" /\ (am' # Null \/ step = AssocEndpoints))
  /\ (pc = "fb" /\ pc' # "fb" =>
        pc' = "jobs" /\ (fb' # Null \/ step = EmployeeEndpoints))
  /\ (pc = "jobs" /\ pc' # "jobs" =>
        /\ pc' = "vdone"
        /\ (jobs' # Null \/ step = JobEndpoints)
        /\ IsReturned(vres'))
\* the result object holds what the functions returned, null where none did
ResultMirrorsMetrics ==
  /\ (pc \in {"am", "fb", "jobs"} => orgId # Null /\ vres = Pending)
  /\ (orgId # Null /\ pc \in {"vdone", "done"} =>
        /\ IsReturned(vres)
        /\ vres.returned.orgId = orgId
        /\ ~vres.returned.rateLimited
        /\ vres.returned.associatedMembers = am
        /\ vres.returned.jobsPostedCount = jobs
        /\ vres.returned.employeeCount = (IF am # Null THEN am ELSE fb)
        /\ (am = Null /\ fb = Null =>
              /\ vres.returned.employeeCountRange = Null
              /\ vres.returned.dataSource = "none"))

\* C16: a failed candidate call only yields no data from that candidate: the
\* three metric functions go on to their next candidate and never throw, and
\* once the organization ID is resolved voyagerScrape returns a result object
\* that is null for every metric no candidate supplied.
C16_CandidateFailureIsLocal ==
  []ResultMirrorsMetrics /\ [][MetricStep]_vars

C16_Witness ==
  /\ pc = "done"
  /\ after429 = {"voyagerAssociatedMembers", "voyagerEmployeesTotal",
                 "voyagerJobsTotal"}
  /\ IsReturned(vres)
  /\ vres.returned.orgId # Null
  /\ vres.returned.employeeCount = Null
  /\ vres.returned.jobsPostedCount = Null

\* C17: a call answered HTTP 403 stops the remaining calls of the function
\* that issued it, and voyagerScrape then returns a result object whose
\* dataSource is "blocked": it does not throw and does not answer
\* "rate_limited".
C17_ForbiddenYieldsBlocked ==
  /\ after403 = {}
  /\ (got403 # {} /\ vres # Pending =>
        IsReturned(vres) /\ vres.returned.dataSource = "blocked")

\* C19: GET /scrape answers 400 when the url parameter is missing or names a
\* host outside linkedin.com, and answers 500 only for a reference that was
\* accepted and whose scrape then failed.
C19_InvalidUrlIs400 ==
  resp # Pending =>
    /\ (reqUrl = <<>> \/ NamesForeignHost(reqUrl) => resp.status = 400)
    /\ (resp.status = 500 => reqUrl # <<>> /\ ~NamesForeignHost(reqUrl))

(***************************************************************************)
(* One outbound network call: fetchText and fetchJson of voyager.js and    *)
(* executeQuery of linkedinGraphQL.js.  fetch and the body readers         *)
(* (res.text(), res.json()) are those of the Fetch standard: they settle   *)
(* when the upstream answers or when the signal they were given aborts,    *)
(* and have no deadline of their own.  Time is counted in ticks.           *)
(***************************************************************************)
MaxTimeout == 2
NetCalls == {"fetchText", "fetchJson", "executeQuery"}
\* head: what happens to the request; ok: res.ok; body: what happens to the
\* read of the response body
Upstreams ==
  [head : {"answer", "silent", "error"}, ok : BOOLEAN,
   body : {"answer", "bad", "silent"}]
M_timeout == <<"Timeout">>
M_fetchFailed == <<"fetch failed">>
M_httpError == <<"HTTP error">>
M_badJson == <<"Unexpected token">>
M_gqlFailed == <<"GraphQL request failed">>
M_gqlErrs == <<"GraphQL errors">>

\* whether the call hands fetch a signal that a timer aborts
UsesWithTimeout(call) == call \in {"fetchText", "fetchJson"}

\* .finally(cancel): clearTimeout once the promise of fetch has settled
Cancel == IF timer = "armed" THEN "cleared" ELSE timer

\* the call is made and suspends at its randomized delay
StartCall(call, ms, up) ==
  /\ netPc = "idle"
  /\ netCall' = call
  /\ timeoutMs' = ms
  /\ upstream' = up
  /\ netPc' = "delay"
  /\ UNCHANGED <<timer, elapsed, netRes>>
  /\ UNCHANGED <<normVars, identVars, reqVars, voyVars, empVars, gqlVars, brwVars,
                 ctxVars, ckVars, moreVars>>

\* the delay is over: withTimeout arms the timer, fetch is called
DelayOver ==
  /\ netPc = "delay"
  /\ timer' = IF UsesWithTimeout(netCall) THEN "armed" ELSE timer
  /\ elapsed' = 0
  /\ netPc' = "fetch"
  /\ UNCHANGED <<netCall, timeoutMs, upstream, netRes>>
  /\ UNCHANGED <<normVars, identVars, reqVars, voyVars, empVars, gqlVars, brwVars,
                 ctxVars, ckVars, moreVars>>

\* time passes while the timer is armed
Tick ==
  /\ timer = "armed"
  /\ elapsed < timeoutMs
  /\ elapsed' = elapsed + 1
  /\ UNCHANGED <<netCall, timeoutMs, upstream, netPc, timer, netRes>>
  /\ UNCHANGED <<normVars, identVars, reqVars, voyVars, empVars, gqlVars, brwVars,
                 ctxVars, ckVars, moreVars>>

\* setTimeout's callback: ctrl.abort, the composite signal aborts, fetch
\* rejects with the reason and the call throws it
TimerFires ==
  /\ timer = "armed"
  /\ elapsed = timeoutMs
  /\ timer' = "fired"
  /\ netPc' = "done"
  /\ netRes' = Thrown(M_timeout)
  /\ UNCHANGED <<netCall, timeoutMs, upstream, elapsed>>
  /\ UNCHANGED <<normVars, identVars, reqVars, voyVars, empVars, gqlVars, brwVars,
                 ctxVars, ckVars, moreVars>>

\* the promise of fetch settles: a network error rejects it, response
\* headers fulfil it
FetchSettles ==
  /\ netPc = "fetch"
  /\ upstream.head # "silent"
  /\ timer' = Cancel
  /\ IF upstream.head = "error"
       THEN netPc' = "done" /\ netRes' = Thrown(M_fetchFailed)
     ELSE IF ~upstream.ok /\ netCall # "executeQuery"
       THEN netPc' = "done" /\ netRes' = Thrown(M_httpError)
     ELSE netPc' = "body" /\ UNCHANGED netRes
  /\ UNCHANGED <<netCall, timeoutMs, upstream, elapsed>>
  /\ UNCHANGED <<normVars, identVars, reqVars, voyVars, empVars, gqlVars, brwVars,
                 ctxVars, ckVars, moreVars>>

\* the read of the response body settles: res.text(), res.json(), and for
\* executeQuery the response.text() of a response that is not ok
BodySettles ==
  /\ netPc = "body"
  /\ upstream.body # "silent"
  /\ netRes' =
       IF netCall = "executeQuery" /\ ~upstream.ok THEN Thrown(M_gqlFailed)
       ELSE IF netCall = "fetchText" THEN Returned(Str(<<"body">>))
       ELSE IF upstream.body = "bad"
         THEN IF netCall = "fetchJson" THEN Thrown(M_badJson) ELSE Thrown(M_gqlErrs)
       ELSE Returned(Str(<<"json">>))
  /\ netPc' = "done"
  /\ UNCHANGED <<netCall, timeoutMs, upstream, timer, elapsed>>
  /\ UNCHANGED <<normVars, identVars, reqVars, voyVars, empVars, gqlVars, brwVars,
                 ctxVars, ckVars, moreVars>>

NetInit ==
  /\ NetIdle
  /\ CkIdle
  /\ MoreIdle
  /\ NormIdle
  /\ IdentIdle
  /\ ScrapeIdle
  /\ EmpIdle
  /\ GqlIdle
  /\ BrwIdle
  /\ CtxIdle

NetNext ==
  \/ \E call \in NetCalls, ms \in 1..MaxTimeout, up \in Upstreams :
       StartCall(call, ms, up)
  \/ DelayOver
  \/ Tick
  \/ TimerFires
  \/ FetchSettles
  \/ BodySettles

\* timers and settled promises are run by the event loop
SpecDeadline == NetInit /\ [][NetNext]_vars /\ WF_vars(NetNext)

\* the call waits for an upstream that will not answer
AwaitsSilentUpstream ==
  \/ netPc = "fetch" /\ upstream.head = "silent"
  \/ netPc = "body" /\ upstream.body = "silent"

\* C18: every network call (fetchText, fetchJson, the read of the response
\* body included, and executeQuery) that waits for an upstream that never
\* answers is eventually aborted and ends as a failure.
C18_SilentUpstreamIsAborted == AwaitsSilentUpstream ~> IsThrown(netRes)

(***************************************************************************)
(* The Cookie header of outbound requests: buildCookieString of            *)
(* cookieManager.js and buildHeaders of voyager.js, against the table of   *)
(* MULTI-COOKIE-SETUP.md.  A header is kept as the array of its            *)
(* "name=value" parts, which the code joins with "; ".                     *)
(***************************************************************************)
MaxEnv == 3

LI_AT == <<"L","I","_","A","T">>
LI_JSESSIONID == <<"L","I","_","J","S","E","S","S","I","O","N","I","D">>
LI_BCOOKIE == <<"L","I","_","B","C","O","O","K","I","E">>
LI_BSCOOKIE == <<"L","I","_","B","S","C","O","O","K","I","E">>
LI_LIAP == <<"L","I","_","L","I","A","P">>
LI_RM == <<"L","I","_","R","M">>
LI_MC == <<"L","I","_","M","C">>
LI_LIDC == <<"L","I","_","L","I","D","C">>
LI_SUGR == <<"L","I","_","S","U","G","R">>
LI_ALERTS == <<"L","I","_","A","L","E","R","T","S">>
LI_TIMEZONE == <<"L","I","_","T","I","M","E","Z","O","N","E">>
LI_LANG == <<"L","I","_","L","A","N","G">>
PORT == <<"P","O","R","T">>

\* MULTI-COOKIE-SETUP.md: environment variable and the cookie it sets
EnvTable ==
  <<[key |-> LI_AT, name |-> <<"l","i","_","a","t">>],
    [key |-> LI_JSESSIONID, name |-> <<"J","S","E","S","S","I","O","N","I","D">>],
    [key |-> LI_BCOOKIE, name |-> <<"b","c","o","o","k","i","e">>],
    [key |-> LI_BSCOOKIE, name |-> <<"b","s","c","o","o","k","i","e">>],
    [key |-> LI_LIAP, name |-> <<"l","i","a","p">>],
    [key |-> LI_RM, name |-> <<"l","i","_","r","m">>],
    [key |-> LI_MC, name |-> <<"l","i","_","m","c">>],
    [key |-> LI_LIDC, name |-> <<"l","i","d","c">>],
    [key |-> LI_SUGR, name |-> <<"l","i","_","s","u","g","r">>],
    [key |-> LI_ALERTS, name |-> <<"l","i","_","a","l","e","r","t","s">>],
    [key |-> LI_TIMEZONE, name |-> <<"t","i","m","e","z","o","n","e">>],
    [key |-> LI_LANG, name |-> <<"l","a","n","g">>]>>
\* Object.keys(process.env), in order
EnvKeys == <<LI_AT, LI_JSESSIONID, LI_BCOOKIE, LI_BSCOOKIE, LI_LIAP, LI_RM, LI_MC, LI_LIDC, LI_SUGR, LI_ALERTS, LI_TIMEZONE, LI_LANG, PORT>>
EnvKeySet == {EnvKeys[i] : i \in 1..Len(EnvKeys)}
EnvValues == {<<"v">>, <<"A","Q","E">>}
S_LI_ == <<"L","I","_">>
S_li_ == <<"l","i","_">>
S_at == <<"a","t">>
S_eq == <<"=">>
\* crypto.randomBytes(8).toString('hex'), prefixed
CsrfTokens == {<<"a","j","a","x",":","0","0">>, <<"a","j","a","x",":","f","f">>}

\* process.env with the variables of set holding the values of vals; a
\* variable that is not set reads as the empty (falsy) string
EnvOf(set, vals) == [k \in EnvKeySet |-> IF k \in set THEN vals[k] ELSE <<>>]
Envs ==
  UNION {{EnvOf(set, vals) : vals \in [set -> EnvValues]} :
           set \in {t \in SUBSET EnvKeySet : Cardinality(t) <= MaxEnv}}

\* String.prototype.replace(pattern, replacement) with a string pattern:
\* the first occurrence only
RECURSIVE ReplaceFirst(_, _, _)
ReplaceFirst(s, p, r) ==
  IF Len(s) < Len(p) THEN s
  ELSE IF StartsWith(s, p) THEN r \o Drop(s, Len(p))
  ELSE <<Head(s)>> \o ReplaceFirst(Tail(s), p, r)

\* buildCookieString: the name it gives the cookie of an LI_ variable
CookieName(key) == ReplaceFirst(ToLowerCase(key), S_li_, <<>>)

\* buildCookieString: the cookies array after the keys[1..n] of process.env
RECURSIVE CookiesUpTo(_, _)
CookiesUpTo(e, n) ==
  IF n = 0 THEN <<>>
  ELSE LET key == EnvKeys[n]
           cookieName == CookieName(key)
       IN IF StartsWith(key, S_LI_) /\ e[key] # <<>>
            THEN IF cookieName = S_at
                   THEN Append(CookiesUpTo(e, n - 1), S_li_ \o S_at \o S_eq \o e[key])
                 ELSE Append(CookiesUpTo(e, n - 1), cookieName \o S_eq \o e[key])
          ELSE CookiesUpTo(e, n - 1)
buildCookieString(e) == CookiesUpTo(e, Len(EnvKeys))

\* buildHeaders: additionalCookies, in order
AdditionalCookies ==
  <<[name |-> <<"b","c","o","o","k","i","e">>, key |-> LI_BCOOKIE],
    [name |-> <<"b","s","c","o","o","k","i","e">>, key |-> LI_BSCOOKIE],
    [name |-> <<"l","i","a","p">>, key |-> LI_LIAP],
    [name |-> <<"l","i","_","r","m">>, key |-> LI_RM],
    [name |-> <<"l","i","d","c">>, key |-> LI_LIDC],
    [name |-> <<"l","i","_","m","c">>, key |-> LI_MC],
    [name |-> <<"l","i","_","s","u","g","r">>, key |-> LI_SUGR]>>
RECURSIVE AdditionalUpTo(_, _)
AdditionalUpTo(e, n) ==
  IF n = 0 THEN <<>>
  ELSE IF e[AdditionalCookies[n].key] # <<>>
    THEN Append(AdditionalUpTo(e, n - 1),
                AdditionalCookies[n].name \o S_eq \o e[AdditionalCookies[n].key])
  ELSE AdditionalUpTo(e, n - 1)
\* buildHeaders(liAt): cookieParts
buildHeaders(liAt, token, e) ==
  <<(<<"J","S","E","S","S","I","O","N","I","D">> \o S_eq \o <<"\"">> \o token \o <<"\"">>)>>
    \o (IF liAt # <<>> THEN <<S_li_ \o S_at \o S_eq \o liAt>> ELSE <<>>)
    \o AdditionalUpTo(e, Len(AdditionalCookies))

\* cookieManager.buildCookieString()
BuildCookieString ==
  /\ cookieString = Pending
  /\ cookieString' = Returned(buildCookieString(env))
  /\ UNCHANGED <<env, csrf, cookie>>
  /\ UNCHANGED <<normVars, identVars, reqVars, voyVars, empVars, gqlVars, brwVars,
                 ctxVars, netVars, moreVars>>

\* buildHeaders(process.env.LI_AT) of a Voyager request
BuildHeaders ==
  /\ cookie = Pending
  /\ \E token \in CsrfTokens :
       /\ csrf' = token
       /\ cookie' = Returned(buildHeaders(env[LI_AT], token, env))
  /\ UNCHANGED <<env, cookieString>>
  /\ UNCHANGED <<normVars, identVars, reqVars, voyVars, empVars, gqlVars, brwVars,
                 ctxVars, netVars, moreVars>>

CkInit ==
  /\ env \in Envs
  /\ csrf = <<>>
  /\ cookieString = Pending
  /\ cookie = Pending
  /\ NetIdle
  /\ MoreIdle
  /\ NormIdle
  /\ IdentIdle
  /\ ScrapeIdle
  /\ EmpIdle
  /\ GqlIdle
  /\ BrwIdle
  /\ CtxIdle

CkNext ==
  \/ BuildCookieString
  \/ BuildHeaders

SpecCookies == CkInit /\ [][CkNext]_vars

\* the header holds the cookie name with the value v
HasCookie(header, name, v) ==
  \E i \in 1..Len(header.returned) : header.returned[i] = name \o S_eq \o v

\* C20: for every row of the documented table whose variable is set to a
\* value V, the Cookie header built by buildCookieString and the one built
\* by buildHeaders hold the documented cookie name with the value V.
C20_DocumentedCookieNames ==
  \A i \in 1..Len(EnvTable) :
    env[EnvTable[i].key] # <<>> =>
      /\ (cookieString # Pending =>
            HasCookie(cookieString, EnvTable[i].name, env[EnvTable[i].key]))
      /\ (cookie # Pending =>
            HasCookie(cookie, EnvTable[i].name, env[EnvTable[i].key]))

\* C21: every request sent with the headers of buildHeaders (the li_at
\* cookie and the csrf token) is addressed to linkedin.com or a subdomain
\* of it, whatever reference the caller supplied.
C21_CredentialsStayInFamily ==
  \A i \in 1..Len(calls) :
    calls[i].fn = "resolveOrgId" => InFamily(calls[i].host)

\* C22: voyagerEmployeesTotal calls its four endpoints in order and leaves
\* the cascade before the last one only with a positive result: an endpoint
\* whose totals are all zero does not end it, the next endpoint is called.
C22_ZeroDoesNotEndCascade ==
  [][pc = "fb" =>
       \/ pc' = "fb" /\ step' = step + 1
       \/ pc' = "jobs" /\ step = EmployeeEndpoints
       \/ pc' = "jobs" /\ fb' # Null /\ fb'.num > 0]_vars

(***************************************************************************)
(* voyagerJobsTotal on its own: the two jobs-search endpoints and the      *)
(* public jobs page, with the answers it received kept in order            *)
(***************************************************************************)
\* the jobs page: what the phrase "N results" / "has N job openings" holds
P_jobsPlus == Html(<<>>, <<>>, <<>>, Str(<<"5","0","0","+">>))
P_jobsFew == Html(<<>>, <<>>, <<>>, Str(<<"1","2">>))
JobsPageOutcomes ==
  TextOutcomes \cup {Ok(P_jobsPlus), Ok(P_jobsFew)}

\* voyagerJobsTotal: one call, from its fetch to the next one or the return
JobsTotalCall ==
  /\ jtStep \in 1..JobEndpoints
  /\ \E o \in (IF jtStep < JobEndpoints THEN JsonOutcomes ELSE JobsPageOutcomes) :
       LET found == JobsFound(jtStep, o)
       IN /\ jtAnswers' = Append(jtAnswers, o)
          /\ IF StopsAfter(jtStep, JobEndpoints, found, o)
               THEN jtRes' = Returned(found) /\ jtStep' = 0
             ELSE jtStep' = jtStep + 1 /\ UNCHANGED jtRes
  /\ UNCHANGED <<uptoCk, afterJt>>

JtInit ==
  /\ jtStep = 1
  /\ jtAnswers = <<>>
  /\ jtRes = Pending
  /\ NormIdle
  /\ IdentIdle
  /\ ScrapeIdle
  /\ EmpIdle
  /\ GqlIdle
  /\ BrwIdle
  /\ CtxIdle
  /\ NetIdle
  /\ CkIdle
  /\ AfterJtIdle

JtNext == JobsTotalCall

SpecJobsTotal == JtInit /\ [][JtNext]_vars

\* the answer of a jobs-search endpoint holds no total
NoTotalIn(o) ==
  o.k # "ok" \/ ~JsonTruthy(o.body) \/ deepFindTotals(o.body) = <<>>
\* the phrase the jobs page held, Null when it was not read or held none
JobsPhrase ==
  IF Len(jtAnswers) = JobEndpoints /\ jtAnswers[JobEndpoints].k = "ok"
     /\ ~jtAnswers[JobEndpoints].body.empty
  THEN jtAnswers[JobEndpoints].body.results
  ELSE Null

\* C23: voyagerJobsTotal fetches the public jobs page only after both
\* jobs-search variants failed or held no total, and the number it returns
\* from the phrase "N results" is the normalizer's value of N (2500 for
\* "2.5k", 500 for "500+").
C23_JobsPhraseNormalized ==
  /\ (Len(jtAnswers) = JobEndpoints =>
        NoTotalIn(jtAnswers[1]) /\ NoTotalIn(jtAnswers[2]))
  /\ (jtRes # Pending /\ JobsPhrase # Null =>
        jtRes.returned = parseHumanNumber(JobsPhrase.str))

\* C24: every URL ensureCompanyUrl returns has the host www.linkedin.com and
\* the path /company/<slug>/ with a trailing slash and no further segment,
\* and ensureCompanyUrl maps it to itself.
C24_CanonicalShape ==
  IsStr(canon) =>
    LET u == ParseURL(canon.str)
        parts == SplitPath(u.pathname)
    IN /\ u.hostname = S_wwwLinkedin
       /\ Len(parts) = 2
       /\ u.pathname = S_slashCompanySlash \o parts[2] \o <<"/">>
       /\ ensureCompanyUrl(canon.str) = canon

(***************************************************************************)
(* safeGoto of scrape.js, called by getJobsCount (and getEmployeeCount) to *)
(* open a sub-path of the company page                                     *)
(***************************************************************************)
MaxAttempts == 3
SubPaths == {<<"jobs/">>, <<"people/">>, <<"about/">>}
M_gotoTimeout == <<"page.goto: Timeout 30000ms exceeded.">>
\* page.goto resolves on the target or on the login page it was redirected
\* to; when it rejects, the page is where the failed navigation left it
GotoOutcomes ==
  {[ok |-> TRUE, at |-> "target"], [ok |-> TRUE, at |-> "login"],
   [ok |-> FALSE, at |-> "blank"], [ok |-> FALSE, at |-> "login"]}

\* the caller awaits safeGoto(page, url)
CallSafeGoto ==
  /\ sgPc = "idle"
  /\ sgRes = Pending
  /\ attempt' = 1
  /\ sgPc' = "goto"
  /\ UNCHANGED <<sgUrl, banner, gotos, waits, at, dismissed, sgRes, extracted>>
  /\ UNCHANGED <<uptoJt, afterNav>>

\* one page.goto of the loop: break on success, else remember the error and,
\* before the last attempt, go to the backoff wait
Goto ==
  /\ sgPc = "goto"
  /\ \E o \in GotoOutcomes :
       /\ gotos' = Append(gotos, o)
       /\ at' = o.at
       /\ IF o.ok THEN sgPc' = "settle"
          ELSE IF attempt < MaxAttempts THEN sgPc' = "backoff"
          ELSE sgPc' = "settle"
  /\ UNCHANGED <<sgUrl, banner, attempt, waits, dismissed, sgRes, extracted>>
  /\ UNCHANGED <<uptoJt, afterNav>>

\* page.waitForTimeout(2000 * attempt), then the next attempt
Backoff ==
  /\ sgPc = "backoff"
  /\ waits' = Append(waits, 2000 * attempt)
  /\ attempt' = attempt + 1
  /\ sgPc' = "goto"
  /\ UNCHANGED <<sgUrl, banner, gotos, at, dismissed, sgRes, extracted>>
  /\ UNCHANGED <<uptoJt, afterNav>>

\* after the loop: the two waitForLoadState calls (their errors are
\* swallowed), the login/challenge test on page.url(), dismissBanners
Settle ==
  /\ sgPc = "settle"
  /\ IF at = "login"
       THEN sgRes' = Thrown(M_authRequired) /\ UNCHANGED dismissed
     ELSE sgRes' = Returned(Null) /\ dismissed' = TRUE
  /\ sgPc' = "done"
  /\ UNCHANGED <<sgUrl, banner, attempt, gotos, waits, at, extracted>>
  /\ UNCHANGED <<uptoJt, afterNav>>

\* getJobsCount after safeGoto returned: the waits for selectors and
\* extractCountByPatterns on the page
ExtractFromPage ==
  /\ sgPc = "done"
  /\ IsReturned(sgRes)
  /\ ~extracted
  /\ extracted' = TRUE
  /\ UNCHANGED <<sgUrl, banner, attempt, gotos, waits, at, sgPc, dismissed, sgRes>>
  /\ UNCHANGED <<uptoJt, afterNav>>

NavInit ==
  /\ sgUrl \in SubPaths
  /\ banner \in BOOLEAN
  /\ attempt = 0 /\ gotos = <<>> /\ waits = <<>>
  /\ at = "blank" /\ sgPc = "idle" /\ dismissed = FALSE /\ sgRes = Pending
  /\ extracted = FALSE
  /\ NormIdle
  /\ IdentIdle
  /\ ScrapeIdle
  /\ EmpIdle
  /\ GqlIdle
  /\ BrwIdle
  /\ CtxIdle
  /\ NetIdle
  /\ CkIdle
  /\ JtIdle
  /\ AfterNavIdle

NavNext ==
  \/ CallSafeGoto
  \/ Goto
  \/ Backoff
  \/ Settle
  \/ ExtractFromPage

SpecGoto == NavInit /\ [][NavNext]_vars

\* a page.goto of this invocation succeeded
Loaded == \E i \in 1..Len(gotos) : gotos[i].ok
\* every page.goto but the last one failed
OnlyLastMaySucceed == \A i \in 1..(Len(gotos) - 1) : ~gotos[i].ok
\* the number of failed attempts that are followed by a wait: all but the third
FailuresBeforeLast ==
  Cardinality({i \in 1..Len(gotos) : ~gotos[i].ok /\ i < MaxAttempts})

\* C25: safeGoto calls page.goto at most three times, never again after a
\* success, waits 2000 ms times the attempt number after a failed attempt
\* but not after the third, and dismisses banners only after a successful
\* load.
C25_BoundedRetryThenBanners ==
  /\ Len(gotos) <= MaxAttempts
  /\ OnlyLastMaySucceed
  /\ \A i \in 1..Len(waits) : waits[i] = 2000 * i
  /\ (sgPc \in {"goto", "settle", "done"} => Len(waits) = FailuresBeforeLast)
  /\ (dismissed => Loaded)

\* C26: when all three page.goto calls failed, safeGoto throws the last
\* navigation error: it does not return normally, and the caller does not
\* read the page after a navigation that did not succeed.
C26_FailedNavigationThrows ==
  /\ (sgRes # Pending /\ ~Loaded => sgRes = Thrown(M_gotoTimeout))
  /\ (extracted => Loaded)

(***************************************************************************)
(* The response listener of getJobsCountViaSearch and                      *)
(* getEmployeeCountViaSearch: page.on('response', async handler) with the  *)
(* closure variable foundTotal, the navigation, and the read of foundTotal *)
(* after it.  The responses are those that pass the handler's content-type *)
(* and URL tests.                                                          *)
(***************************************************************************)
MaxResponses == 2
SearchFunctions == {"getJobsCountViaSearch", "getEmployeeCountViaSearch"}
\* resp.json().catch(() => null): JNull also stands for a body that is not JSON
ResponseBodies == {JNull, J_empty, J_zero, J_small, J_totals}
DomCounts == {Null, Num(7)}

\* the handler's update of foundTotal with the totals of one body
FoundAfter(found, json) ==
  IF ~JsonTruthy(json) \/ deepFindTotals(json) = <<>> THEN found
  ELSE LET max == MaxOf(deepFindTotals(json))
       IN IF ~Truthy(found) \/ max > found.num THEN Num(max) ELSE found

\* what the function returns for a count
SearchReturn(which, count) ==
  IF which = "getJobsCountViaSearch" THEN count ELSE CountResult(count, Null)

\* a response of the navigation is observed: its handler starts and suspends
\* at await resp.json()
ResponseObserved(i) ==
  /\ srPc = "nav"
  /\ srHandler[i] = "none"
  /\ srHandler' = [srHandler EXCEPT ![i] = "json"]
  /\ UNCHANGED <<srWhich, srBodies, foundTotal, srDom, srPc, srRes>>
  /\ UNCHANGED <<uptoNav, afterSr>>

\* the body of response i has been read: the handler resumes and updates
\* foundTotal, whatever the function is doing by then
HandlerResumes(i) ==
  /\ srHandler[i] = "json"
  /\ srHandler' = [srHandler EXCEPT ![i] = "done"]
  /\ foundTotal' = FoundAfter(foundTotal, srBodies[i])
  /\ UNCHANGED <<srWhich, srBodies, srDom, srPc, srRes>>
  /\ UNCHANGED <<uptoNav, afterSr>>

\* safeGoto, waitForSelector and waitForTimeout(2000) are over; safeGoto
\* throws when the search redirected to the login page
NavigationOver ==
  /\ srPc = "nav"
  /\ \E redirected \in BOOLEAN :
       IF redirected
         THEN srPc' = "done" /\ srRes' = Thrown(M_authRequired)
       ELSE srPc' = "read" /\ UNCHANGED srRes
  /\ UNCHANGED <<srWhich, srBodies, srHandler, foundTotal, srDom>>
  /\ UNCHANGED <<uptoNav, afterSr>>

\* if (foundTotal) return it, else the DOM heuristics
ReadFoundTotal ==
  /\ srPc = "read"
  /\ srRes' = Returned(SearchReturn(srWhich,
                 IF Truthy(foundTotal) THEN foundTotal ELSE srDom))
  /\ srPc' = "done"
  /\ UNCHANGED <<srWhich, srBodies, srHandler, foundTotal, srDom>>
  /\ UNCHANGED <<uptoNav, afterSr>>

SrInit ==
  /\ srWhich \in SearchFunctions
  /\ srBodies \in [1..MaxResponses -> ResponseBodies]
  /\ srHandler = [i \in 1..MaxResponses |-> "none"]
  /\ foundTotal = Null
  /\ srDom \in DomCounts
  /\ srPc = "nav"
  /\ srRes = Pending
  /\ NormIdle
  /\ IdentIdle
  /\ ScrapeIdle
  /\ EmpIdle
  /\ GqlIdle
  /\ BrwIdle
  /\ CtxIdle
  /\ NetIdle
  /\ CkIdle
  /\ JtIdle
  /\ NavIdle
  /\ AfterSrIdle

SrNext ==
  \/ \E i \in 1..MaxResponses : ResponseObserved(i)
  \/ \E i \in 1..MaxResponses : HandlerResumes(i)
  \/ NavigationOver
  \/ ReadFoundTotal

SpecSearch == SrInit /\ [][SrNext]_vars

\* the totals of the responses observed during the navigation
ObservedTotals ==
  UNION {{deepFindTotals(srBodies[i])[k] : k \in 1..Len(deepFindTotals(srBodies[i]))} :
           i \in {j \in 1..MaxResponses : srHandler[j] # "none" /\ JsonTruthy(srBodies[j])}}
MaxObserved == CHOOSE m \in ObservedTotals : \A n \in ObservedTotals : n <= m

\* C27: when a response observed during the search navigation holds a
\* total-like field, the value returned is the maximum total over all
\* observed responses, in whatever order the handlers and the navigation
\* complete.
C27_MaxOfObservedTotals ==
  IsReturned(srRes) /\ ObservedTotals # {} =>
    srRes.returned = SearchReturn(srWhich, Num(MaxObserved))

\* tryMultipleQueries recorded an attempt of the query
Attempted(query) ==
  \E i \in 1..Len(results.queryResults) : results.queryResults[i].query = query
\* the organization-URN lookup answered with a URN
UrnKnown == api.urn.ok /\ Truthy(api.urn.data)

\* C28 as stated: every catalogue query is attempted whatever the other
\* queries did: neither a failed basic-info query nor a failed
\* organization-URN lookup keeps the employee-insights and job-postings
\* queries from being attempted.
C28_AllQueriesAttempted ==
  gpc = "done" =>
    /\ Attempted("basicCompanyInfo")
    /\ Attempted("employeeInsights")
    /\ Attempted("jobPostings")

\* C28, amended: a failed basic-info query keeps no later query from being
\* attempted, and the employee-insights and job-postings queries are
\* attempted exactly when the organization-URN lookup returned a URN.
C28_AttemptedWhenUrnKnown ==
  gpc = "done" =>
    /\ Attempted("basicCompanyInfo")
    /\ (Attempted("employeeInsights") <=> UrnKnown)
    /\ (Attempted("jobPostings") <=> UrnKnown)

C28_Witness ==
  /\ gpc = "done"
  /\ ~api.basic.ok
  /\ UrnKnown
  /\ Attempted("employeeInsights")
  /\ Attempted("jobPostings")

\* a lookup of resolveOrgId was answered HTTP 429: its recorded error starts
\* with the method's prefix and "HTTP 429 for"
Answered429 ==
  \E i \in 1..Len(errors) :
    \E prefix \in {M_apiPrefix, M_htmlPrefix, M_aboutPrefix} :
      StartsWith(errors[i], prefix \o <<"HTTP ">> \o S_429 \o <<" for ">>)

\* C29: voyagerScrape returns dataSource "rate_limited" only if a call of
\* that resolution was answered HTTP 429; a failure with another status or
\* cause, such as HTTP 404 for a slug that holds the digits 429, is not
\* reported as rate limiting.
C29_RateLimitedOnlyOn429 ==
  IsReturned(vres) /\ vres.returned.dataSource = "rate_limited" => Answered429

\* which candidate a result's employeeCount was taken from
CountOrigin(r) ==
  IF r.employeeCount = Null THEN "none"
  ELSE IF r.associatedMembers # Null /\ r.employeeCount = r.associatedMembers
  THEN "associated_members"
  ELSE "employee_search"

\* C30: in every result returned by voyagerScrape, dataSource is "none"
\* exactly when employeeCount is null, "associated_members" exactly when
\* employeeCount is the associated-members figure and "employee_search"
\* exactly when it is the fallback search total, a candidate of 0 included.
C30_DataSourceNamesTheCount ==
  (IsReturned(vres) /\ ~vres.returned.rateLimited) =>
    /\ vres.returned.dataSource = CountOrigin(vres.returned)
    /\ (vres.returned.dataSource = "employee_search" =>
          am = Null /\ fb # Null /\ vres.returned.employeeCount = fb)
    /\ (vres.returned.dataSource = "associated_members" =>
          am # Null /\ vres.returned.employeeCount = am)

(***************************************************************************)
(* GET /scrape: when the rendered-browser scrape runs as the fallback of   *)
(* the semi-structured path.                                               *)
(***************************************************************************)
\* the request took the semi-structured path: voyagerScrape was called
VoyagerSelected == tried # <<>> /\ tried[1] = "voyager"
\* scrapeCompany was called for this request
BrowserStarted == \E i \in 1..Len(tried) : tried[i] = "browser"
\* the response of a fallback whose browser scrape returned
IsFallbackResponse(r) ==
  /\ DOMAIN r = {"status", "method", "result", "voyagerError"}
  /\ r.status = 200
  /\ r.method = "browser-fallback"
  /\ r.voyagerError = vres.thrown
\* the response of a voyagerScrape that returned
IsVoyagerResponse(r) ==
  /\ DOMAIN r = {"status", "method", "result"}
  /\ r.status = 200
  /\ r.method = "voyager"
  /\ r.result = vres.returned
\* the browser scrape starts if and only if voyagerScrape threw, and a
\* returned result is answered with method "voyager" and no browser scrape
FallbackOnlyAfterThrow ==
  VoyagerSelected =>
    /\ (BrowserStarted => IsThrown(vres))
    /\ (pc = "done" /\ IsThrown(vres) => BrowserStarted)
    /\ (pc = "done" /\ IsReturned(vres) =>
          ~BrowserStarted /\ IsVoyagerResponse(resp))

C31_WitnessRateLimited ==
  /\ pc = "done" /\ IsReturned(vres) /\ vres.returned.rateLimited
  /\ tried = <<"voyager">>
  /\ IsVoyagerResponse(resp)

\* C32: a randomized pacing delay precedes every outbound network call of
\* the semi-structured strategy (each fetchJson/fetchText) and of the
\* unstructured strategy (each page navigation), whether or not earlier
\* calls succeeded.  For safeGoto: every page.goto it has issued was
\* preceded by a wait of its own.
C32_DelayBeforeEveryNavigation == Len(gotos) <= Len(waits)

\* C33: a failed initialization of the shared browser session is not
\* memoized: a getPersistentContext call made after an earlier one has
\* rejected starts a new initialization attempt and is not handed the
\* rejected promise.
C33_FailedInitNotMemoized ==
  [][\A c \in Callers :
       (/\ cstate[c] = "idle" /\ cstate'[c] = "waiting"
        /\ persistentContextPromise # 0
        /\ promises[persistentContextPromise].state = "rejected")
       => /\ Len(promises') = Len(promises) + 1
          /\ awaiting'[c] = Len(promises')]_vars

(***************************************************************************)
(* scrapeCompany(url, { incognito: true }) of scrape.js, called again and  *)
(* again: getIncognitoContext launches a browser for each call.            *)
(***************************************************************************)
MaxScrapes == 3
M_browserLaunch == <<"browserType.launch: Failed to launch">>
M_incognitoNeeds ==
  <<"Incognito mode requires either LI_AT cookie or LINKEDIN_EMAIL/LINKEDIN_PASSWORD in environment">>
M_loginTimeout == <<"page.waitForSelector: Timeout 20000ms exceeded.">>

\* scrapeCompany settles: its outcome is kept and the next call may start
Settled(outcome) ==
  /\ settled' = Append(settled, outcome)
  /\ icPc' = "idle"

\* scrapeCompany with incognito = true, up to chromium.launch
CallIncognito ==
  /\ icPc = "idle"
  /\ Len(settled) < MaxScrapes
  /\ icPc' = "launch"
  /\ UNCHANGED <<icLiAt, icCreds, openBrowsers, settled>>
  /\ UNCHANGED <<uptoSr, afterInc>>

\* getIncognitoContext: chromium.launch and browser.newContext
LaunchBrowser ==
  /\ icPc = "launch"
  /\ \E launched \in BOOLEAN :
       IF launched
         THEN /\ openBrowsers' = openBrowsers + 1
              /\ icPc' = "auth"
              /\ UNCHANGED settled
       ELSE /\ Settled(Thrown(M_browserLaunch))
            /\ UNCHANGED openBrowsers
  /\ UNCHANGED <<icLiAt, icCreds>>
  /\ UNCHANGED <<uptoSr, afterInc>>

\* getIncognitoContext: addCookies when LI_AT is set, else the credentials
\* test and context.newPage for the login
Authenticate ==
  /\ icPc = "auth"
  /\ IF icLiAt THEN icPc' = "scrape" /\ UNCHANGED settled
     ELSE IF ~icCreds THEN Settled(Thrown(M_incognitoNeeds))
     ELSE icPc' = "login" /\ UNCHANGED settled
  /\ UNCHANGED <<icLiAt, icCreds, openBrowsers>>
  /\ UNCHANGED <<uptoSr, afterInc>>

\* getIncognitoContext: the fresh login; its page is closed in the finally
Login ==
  /\ icPc = "login"
  /\ \E loggedIn \in BOOLEAN :
       IF loggedIn THEN icPc' = "scrape" /\ UNCHANGED settled
       ELSE Settled(Thrown(M_loginTimeout))
  /\ UNCHANGED <<icLiAt, icCreds, openBrowsers>>
  /\ UNCHANGED <<uptoSr, afterInc>>

\* scrapeCompany: Promise.all of the two helpers, persistStorageState, return
ScrapePages ==
  /\ icPc = "scrape"
  /\ \E b \in BrowserOutcomes : Settled(b)
  /\ UNCHANGED <<icLiAt, icCreds, openBrowsers>>
  /\ UNCHANGED <<uptoSr, afterInc>>

IncInit ==
  /\ icLiAt \in BOOLEAN
  /\ icCreds \in BOOLEAN
  /\ icPc = "idle"
  /\ openBrowsers = 0
  /\ settled = <<>>
  /\ NormIdle
  /\ IdentIdle
  /\ ScrapeIdle
  /\ EmpIdle
  /\ GqlIdle
  /\ BrwIdle
  /\ CtxIdle
  /\ NetIdle
  /\ CkIdle
  /\ JtIdle
  /\ NavIdle
  /\ SrIdle
  /\ AfterIncIdle

IncNext ==
  \/ CallIncognito
  \/ LaunchBrowser
  \/ Authenticate
  \/ Login
  \/ ScrapePages

SpecIncognito == IncInit /\ [][IncNext]_vars

\* C34: every browser launched by getIncognitoContext for a scrapeCompany
\* call with incognito = true is closed by the time that call settles, on
\* the success path and on every failure path, a failed login included: no
\* incognito browser is open while no call is running.
C34_IncognitoBrowsersClosed == icPc = "idle" => openBrowsers = 0

(***************************************************************************)
(* The pages of the rendered-page helpers of scrape.js: each helper opens  *)
(* a page with context.newPage(), works on it inside try and closes it in  *)
(* finally { try { await page.close(); } catch (_) { } }.  getJobsCount    *)
(* and getEmployeeCount open two pages in turn and then call getCompanyId  *)
(* and the search helper, each with .catch(() => null).                    *)
(***************************************************************************)
PageHelpers ==
  {"getJobsCount", "getEmployeeCount", "getCompanyId", "getJobsCountViaSearch",
   "getEmployeeCountViaSearch"}
\* the number of pages a helper opens itself, one after the other
OwnPages(fn) == IF fn \in {"getJobsCount", "getEmployeeCount"} THEN 2 ELSE 1
\* the search helper of the final fallback
SearchHelper(fn) ==
  IF fn = "getJobsCount" THEN "getJobsCountViaSearch" ELSE "getEmployeeCountViaSearch"
M_newPage == <<"browserContext.newPage: Target page, context or browser has been closed">>
\* the try block found nothing and control leaves it at its end
Fall == [fall |-> TRUE]
\* how the try block of a helper's page can end
TryOutcomes(fn) ==
  IF fn = "getCompanyId"
    THEN {Returned(Str(<<"7","7">>)), Returned(Null), Thrown(M_authRequired)}
  ELSE IF OwnPages(fn) = 1
    THEN {Returned(Num(12)), Returned(Num(0)), Returned(Null), Thrown(M_authRequired)}
  ELSE {Returned(Num(7)), Fall, Thrown(M_authRequired)}

\* a helper call that is about to open its first page
Frame(fn) == [fn |-> fn, blk |-> 1, st |-> "open", page |-> 0, out |-> Pending]
Top == stack[Len(stack)]
\* a nested helper's outcome as its caller sees it: .catch(() => null)
CatchNull(out) == IF IsThrown(out) THEN Null ELSE out.returned

\* what leaves the finally block: page.close() is inside its own try/catch
M_pageClose == <<"page.close: Target page, context or browser has been closed">>
AfterCloseRethrows(out, closed) == IF closed THEN out ELSE Thrown(M_pageClose)
AfterClose(out, closed) == out

\* the running helper returns or throws; a caller that awaits it resumes
Leave(out) ==
  IF Len(stack) = 1
    THEN stack' = <<>> /\ hres' = out
  ELSE IF stack[1].st = "awaitId"
    THEN IF Truthy(CatchNull(out))
           THEN /\ stack' = <<[stack[1] EXCEPT !.st = "awaitSearch"],
                              Frame(SearchHelper(stack[1].fn))>>
                /\ UNCHANGED hres
         ELSE stack' = <<>> /\ hres' = Returned(Null)
  ELSE /\ stack' = <<>>
       /\ hres' = Returned(IF Truthy(CatchNull(out)) THEN CatchNull(out) ELSE Null)

\* a helper is called on the shared context
CallHelper ==
  /\ stack = <<>> /\ hres = Pending /\ pages = <<>>
  /\ \E fn \in PageHelpers : stack' = <<Frame(fn)>>
  /\ UNCHANGED <<pages, hres>>
  /\ UNCHANGED <<uptoInc, afterPg>>

\* await context.newPage()
NewPage ==
  /\ stack # <<>> /\ Top.st = "open"
  /\ \E opened \in BOOLEAN :
       IF opened
         THEN /\ pages' = Append(pages, [owner |-> Len(stack), state |-> "open"])
              /\ stack' = [stack EXCEPT ![Len(stack)] =
                             [Top EXCEPT !.st = "body", !.page = Len(pages) + 1]]
              /\ UNCHANGED hres
       ELSE Leave(Thrown(M_newPage)) /\ UNCHANGED pages
  /\ UNCHANGED <<uptoInc, afterPg>>

\* the try block: safeGoto and the reading of the page
TryBlock ==
  /\ stack # <<>> /\ Top.st = "body"
  /\ \E o \in TryOutcomes(Top.fn) :
       stack' = [stack EXCEPT ![Len(stack)] = [Top EXCEPT !.st = "close", !.out = o]]
  /\ UNCHANGED <<pages, hres>>
  /\ UNCHANGED <<uptoInc, afterPg>>

\* the finally block, and what follows it up to the next await
ClosePage ==
  /\ stack # <<>> /\ Top.st = "close"
  /\ \E closed \in BOOLEAN :
       /\ pages' = [pages EXCEPT ![Top.page].state =
                      IF closed THEN "closed" ELSE "closeFailed"]
       /\ LET out == AfterClose(Top.out, closed)
          IN IF out # Fall THEN Leave(out)
             ELSE IF Top.blk < OwnPages(Top.fn)
               THEN /\ stack' = [stack EXCEPT ![Len(stack)] =
                                   [Top EXCEPT !.st = "open", !.blk = Top.blk + 1,
                                               !.page = 0, !.out = Pending]]
                    /\ UNCHANGED hres
             ELSE /\ stack' = <<[Top EXCEPT !.st = "awaitId", !.page = 0,
                                            !.out = Pending],
                                Frame("getCompanyId")>>
                  /\ UNCHANGED hres
  /\ UNCHANGED <<uptoInc, afterPg>>

PgInit ==
  /\ stack = <<>> /\ pages = <<>> /\ hres = Pending
  /\ NormIdle
  /\ IdentIdle
  /\ ScrapeIdle
  /\ EmpIdle
  /\ GqlIdle
  /\ BrwIdle
  /\ CtxIdle
  /\ NetIdle
  /\ CkIdle
  /\ JtIdle
  /\ NavIdle
  /\ SrIdle
  /\ IncIdle
  /\ AfterPgIdle

PgNext ==
  \/ CallHelper
  \/ NewPage
  \/ TryBlock
  \/ ClosePage

SpecPages == PgInit /\ [][PgNext]_vars

\* an open page belongs to a running helper that is still inside the try
\* block it opened the page for
OpenPagesAreInUse ==
  \A i \in 1..Len(pages) :
    pages[i].state = "open" =>
      /\ pages[i].owner <= Len(stack)
      /\ stack[pages[i].owner].page = i
      /\ stack[pages[i].owner].st \in {"body", "close"}
\* the finally block hands on what the try block ended with, whether or not
\* page.close() failed
CloseKeepsOutcome ==
  (stack # <<>> /\ Top.st = "close") =>
    IF Top.out = Fall
      THEN /\ hres' = Pending
           /\ Len(stack') >= Len(stack)
    ELSE IF Len(stack) = 1 THEN hres' = Top.out /\ stack' = <<>>
    ELSE IF stack[1].st = "awaitId" /\ IsReturned(Top.out) /\ IsStr(Top.out.returned)
      THEN hres' = Pending /\ Len(stack') = 2 /\ stack'[2].st = "open"
    ELSE IF stack[1].st = "awaitSearch" /\ IsReturned(Top.out)
            /\ IsNum(Top.out.returned) /\ Top.out.returned.num # 0
      THEN hres' = Top.out
    ELSE hres' = Returned(Null)

\* C35: every page opened by a rendered-page helper is closed before that
\* helper returns or throws, on every exit path, and a failure to close a
\* page never changes the helper's outcome.
C35_PagesClosedOnEveryExit ==
  []OpenPagesAreInUse /\ [][CloseKeepsOutcome]_vars

C35_Witness ==
  /\ stack = <<>>
  /\ hres = Thrown(M_authRequired)
  /\ Len(pages) = 2
  /\ pages[1].state = "closeFailed"
  /\ pages[2].state = "closed"

(***************************************************************************)
(* deepFindTotals of voyager.js on its own: the list it returns for a      *)
(* parsed JSON value, and the total voyagerEmployeesTotal takes from the   *)
(* list of one response.                                                   *)
(***************************************************************************)
MaxDepth == 4
MaxWidth == 3
K_TOTAL == <<"T","O","T","A","L">>
K_NumResults == <<"N","u","m","R","e","s","u","l","t","s">>
K_totals == <<"t","o","t","a","l","s">>
TotalsLeaves == {JNull, JNum(0), JNum(3), JNum(40), JStr(<<>>)}
TotalsKeys ==
  {K_total, K_TOTAL, K_totalResults, K_totalHits, K_NumResults, K_count, K_totals}
\* objects of one entry
FlatObjects == {JObj(<<KV(k, v)>>) : k \in TotalsKeys, v \in TotalsLeaves}
InnerValues ==
  {JObj(<<KV(K_total, JNum(3))>>), JObj(<<KV(K_TOTAL, JNum(40))>>),
   JObj(<<KV(K_count, JNum(40))>>), JArr(<<JNum(40)>>), JNum(3)}
\* arrays of two values, objects that nest a value under a key
NestedValues ==
  {JArr(<<a, b>>) : a, b \in InnerValues}
    \cup {JObj(<<KV(k, a), KV(K_totalHits, JNum(3))>>) :
            k \in {K_total, K_data}, a \in InnerValues}
    \cup {JObj(<<KV(K_data, JArr(<<a, JObj(<<KV(K_numResults, b)>>)>>))>>) :
            a \in InnerValues, b \in {JNum(3), JStr(<<>>)}}
TotalsInputs ==
  TotalsLeaves \cup FlatObjects \cup NestedValues \cup JsonBodies \cup {JArr(<<>>)}

\* deepFindTotals(json), and the if (totals.length) return Math.max(...totals)
\* of the first endpoint of voyagerEmployeesTotal
FindTotals ==
  /\ tjRes = Pending
  /\ tjRes' = [totals |-> deepFindTotals(tj), used |-> EmployeesFound(1, Ok(tj))]
  /\ UNCHANGED tj
  /\ UNCHANGED uptoPg

TotInit ==
  /\ tj \in TotalsInputs
  /\ tjRes = Pending
  /\ NormIdle
  /\ IdentIdle
  /\ ScrapeIdle
  /\ EmpIdle
  /\ GqlIdle
  /\ BrwIdle
  /\ CtxIdle
  /\ NetIdle
  /\ CkIdle
  /\ JtIdle
  /\ NavIdle
  /\ SrIdle
  /\ IncIdle
  /\ PgIdle

TotNext == FindTotals

SpecTotals == TotInit /\ [][TotNext]_vars

\* the positions of a JSON value, each the indices that lead to it
Positions == UNION {[1..d -> 1..MaxWidth] : d \in 1..MaxDepth}
\* the entry a position names: its key and value, NoEntry when there is none
NoEntry == [k |-> <<>>, v |-> [t |-> "none"]]
RECURSIVE EntryAt(_, _, _)
EntryAt(j, p, i) ==
  IF ~(j.t \in {"obj", "arr"}) \/ p[i] > Len(j.e) THEN NoEntry
  ELSE LET k == IF j.t = "obj" THEN j.e[p[i]].k ELSE <<>>
           v == IF j.t = "obj" THEN j.e[p[i]].v ELSE j.e[p[i]]
       IN IF i = Len(p) THEN [k |-> k, v |-> v] ELSE EntryAt(v, p, i + 1)
\* the positions that hold a number under one of the four names
TotalNames ==
  {<<"t","o","t","a","l">>,
   <<"t","o","t","a","l","r","e","s","u","l","t","s">>,
   <<"t","o","t","a","l","h","i","t","s">>,
   <<"n","u","m","r","e","s","u","l","t","s">>}
TotalPositions(j) ==
  {p \in Positions :
     /\ ToLowerCase(EntryAt(j, p, 1).k) \in TotalNames
     /\ EntryAt(j, p, 1).v.t = "num"}
TotalValues(j) == {EntryAt(j, p, 1).v.v : p \in TotalPositions(j)}
\* list holds each number as many times as positions hold it
SameMultiset(list, j) ==
  /\ Len(list) = Cardinality(TotalPositions(j))
  /\ \A n \in TotalValues(j) :
       Cardinality({i \in 1..Len(list) : list[i] = n})
         = Cardinality({p \in TotalPositions(j) : EntryAt(j, p, 1).v.v = n})

\* C36: deepFindTotals returns exactly the multiset of the numbers stored
\* under a key equal, ignoring case, to total, totalResults, totalHits or
\* numResults at any depth of the JSON value, in nested objects and arrays
\* alike, an empty list for null, primitives and values with no such key,
\* and the semi-structured strategy uses the maximum of the list of one
\* response.
C36_TotalsAtAnyDepth ==
  tjRes # Pending =>
    /\ SameMultiset(tjRes.totals, tj)
    /\ (~(tj.t \in {"obj", "arr"}) => tjRes.totals = <<>>)
    /\ IF TotalPositions(tj) = {} THEN tjRes.used = Null
       ELSE /\ IsNum(tjRes.used)
            /\ tjRes.used.num \in TotalValues(tj)
            /\ \A n \in TotalValues(tj) : n <= tjRes.used.num

\* totals in an array, under keys in another case, one of them twice
C36_Witness ==
  /\ tj = JArr(<<JObj(<<KV(K_TOTAL, JNum(40))>>), JObj(<<KV(K_TOTAL, JNum(40))>>)>>)
  /\ tjRes # Pending
  /\ tjRes.totals = <<40, 40>>
  /\ tjRes.used = Num(40)

\* a count that is null or a number other than 0
NullOrNonZero(v) == v = Null \/ (IsNum(v) /\ v.num # 0)
\* a text of the site that is absent or states the number 0
ZeroOrAbsent(t) == t = Null \/ (IsStr(t) /\ parseHumanNumber(t.str) = Num(0))
\* every count the jobs page, the navigation link and the jobs search state
\* is zero
StatesZeroJobs(s) ==
  /\ \A i \in 1..Len(s.jobs.phrases) : parseHumanNumber(s.jobs.phrases[i]) = Num(0)
  /\ ZeroOrAbsent(s.jobs.prominent)
  /\ ZeroOrAbsent(s.nav)
  /\ s.search.foundTotal \in {Null, Num(0)}
  /\ ZeroOrAbsent(s.search.dom)
  /\ ZeroOrAbsent(s.search.body)
  /\ (s.search.body = Null => s.search.cards = 0)

\* C37: getJobsCount never returns 0: for every combination of page contents
\* its result is null or a non-zero number, so a company whose pages state
\* zero job openings or zero results is reported with jobsPostedCount null
\* by scrapeCompany.
C37_JobsCountNeverZero ==
  /\ (IsReturned(jres) => NullOrNonZero(jres.returned))
  /\ (IsReturned(jres) /\ StatesZeroJobs(jsite) => jres.returned = Null)
  /\ (IsReturned(sres) =>
        /\ NullOrNonZero(sres.returned.jobsPostedCount)
        /\ (StatesZeroJobs(jsite) => sres.returned.jobsPostedCount = Null))

\* the jobs page states 0 job openings, the search states 0 results
C37_Witness ==
  /\ jsite.jobs = JobsPage(<<T_0>>, Str(T_0))
  /\ jsite.nav = Null
  /\ jsite.search = JobSearchPage(Null, Str(T_0), Str(T_0), 3)
  /\ site.home.urns # <<>>
  /\ jres = Returned(Null)
  /\ IsReturned(sres)
  /\ sres.returned.jobsPostedCount = Null

====
